---- MODULE Spec2Model ----
(***************************************************************************)
(* ELLIO Traefik ForwardAuth: the control-plane token lifecycle, the EDL   *)
(* update pipeline, the IP matcher, the access handler and the log shipper *)
(* as state machines.  Time is in whole seconds.                           *)
(***************************************************************************)
EXTENDS Integers, Sequences, FiniteSets, TLC

(***************************************************************************)
(* Bounds of the model                                                     *)
(***************************************************************************)
MaxTime == 60
TickStep == 30
MaxPosts == 3
MaxUpdates == 2
MaxEvents == 3
\* make(chan *AccessEvent, 1000): the capacity of the intake channel, scaled down
EventChanCap == 1
\* LOG_BATCH_SIZE, LOG_BUFFER_SIZE, LEAKY_BUCKET_CAPACITY, LEAKY_BUCKET_REFILL_RATE
LogBatchSize == 2
LogBufferSize == 1
LeakyBucketCapacity == 1
LeakyBucketRefillRate == 1
\* maxRetries (5) and circuitBreakerThreshold (10) of part_002, scaled down
maxRetries == 2
circuitBreakerThreshold == 2
\* a RingBuffer exercised on its own: its capacity and the number of calls made on it
RingCapacity == 3
MaxCalls == 7
\* a LeakyBucket exercised on its own: its capacity, the number of calls made on it and
\* the seconds that pass meanwhile
BucketCapacity == 2
MaxBucketCalls == 4
MaxBucketTime == 3
\* the worker alone: the intake channel's capacity, the buffer's and the events sent
OrderChanCap == 2
OrderBufferSize == 3
OrderEvents == 4
\* the circuit breaker alone: calls made, and the clock, which has to pass the timeout
MaxCircuitCalls == 6
MaxCircuitTime == 150

(***************************************************************************)
(* Program constants                                                       *)
(***************************************************************************)
StatusOK == 200
StatusBadRequest == 400
StatusForbidden == 403
StatusNotFound == 404
StatusGone == 410
StatusServerError == 500
MinRefreshInterval == 30
RefreshRetryDelay == 30
\* RETRY_DELAY, its default
RetryDelay == 30
DisabledUpdateFrequency == 3600
DefaultUpdateFrequency == 300
\* maxRetries, initialBackoff and maxBackoff of part_002 as they are, for sendWithRetry alone
sendMaxRetries == 5
initialBackoff == 1
maxBackoff == 30
circuitBreakerTimeout == 60
StopTimeout == 10
StatusServiceUnavailable == 503
\* 2*time.Hour of HealthHandler.Ready
ReadyMaxAge == 7200

VARIABLES
    now,            \* wall clock (time.Now), seconds
    mainPc,         \* position of main(): startup, serving, shutdown
    exitCode,       \* os.Exit code, -1 while the process runs
    env,            \* environment read by LoadFromEnv
    cfg,            \* config.Config fields set by InitializeServices
    startup,        \* what Initialize / InitializeServices returned
    tm,             \* api.TokenManager fields
    refreshLoop,    \* the goroutine of StartRefreshLoop: pc, timer, pending answer
    caller,         \* a goroutine calling ForceRefresh / GetTokenWithMinValidity
    bootstrapPosts  \* number of POSTs sent to <issuer>/api/v1/edl/bootstrap

tokenVars == <<now, mainPc, exitCode, env, cfg, startup, tm, refreshLoop, caller, bootstrapPosts>>

VARIABLES
    fetcherCfg,     \* the Config fields read by the Fetcher and the Handler from the environment
    rootCancelled,  \* main's root context is cancelled
    matcher,        \* ipmatcher.Matcher: ipset (atomic.Value), count (atomic.Int64)
    updater,        \* edl.Updater: lastUpdate, lastError, updateCount
    upd,            \* the updateNow call in progress and the goroutine running it
    ticker,         \* runUpdateLoop's ticker: next tick
    handler,        \* auth.Handler
    req,            \* one goroutine of the HTTP server serving forward-auth requests
    updateArgs,     \* history: the sets passed to Matcher.Update so far
    everStored      \* history: Matcher.Update has stored a set at least once

accessVars == <<fetcherCfg, rootCancelled, matcher, updater, upd, ticker, handler, req,
                updateArgs, everStored>>

\* the log shipper: the LogShipper's fields, its ring buffer and leaky bucket, the
\* processEvents goroutine, the shipBatch call in progress, the Stop call; sent counts
\* the SendEvent calls and tally the counter increments made for each event (both are
\* history, for the properties only), streak the shipBatch calls that have finally failed
\* since the last one that succeeded, calls the calls made on a RingBuffer or LeakyBucket
\* exercised on its own (both history as well)
VARIABLES shipper, buffer, bucket, worker, ship, stop, sent, tally, streak, calls

shipperVars == <<shipper, buffer, bucket, worker, ship, stop, sent, tally, streak, calls>>

vars == <<tokenVars, accessVars, shipperVars>>

(***************************************************************************)
(* Errors (api/errors.go).  A Go error value is modelled by its dynamic    *)
(* type and a message tag; errors.New always yields *errors.errorString.   *)
(***************************************************************************)
NoError == [type |-> "nil", msg |-> ""]

PermanentError(msg) == [type |-> "*PermanentError", msg |-> msg]

errorsNew(msg) == [type |-> "*errorString", msg |-> msg]

IsPermanentError(err) == err.type = "*PermanentError"

(***************************************************************************)
(* The control plane's answers to the bootstrap POST                        *)
(***************************************************************************)
ExpiresInSet == {20, 60}

BootstrapAnswers ==
    [code : {StatusOK}, expires_in : ExpiresInSet, config_url : {"cfg"}, logs_url : {"", "logs"}]
    \cup [code : {StatusGone, StatusServerError}, expires_in : {0}, config_url : {""}, logs_url : {""}]

\* BootstrapClient.Bootstrap: the error it returns for an answer
BootstrapErr(token, ans) ==
    IF token = "noclaims" THEN errorsNew("bootstrap token missing issuer")
    ELSE IF ans.code = StatusOK THEN NoError
    ELSE IF ans.code = StatusGone THEN PermanentError("gone")
    ELSE errorsNew("bootstrap failed")

\* whether Bootstrap gets as far as sending the POST
BootstrapSends(token) == token # "noclaims"

(***************************************************************************)
(* TokenManager                                                            *)
(***************************************************************************)
NewTokenManager ==
    [currentToken |-> "", tokenExpiry |-> 0, configURL |-> "", logsURL |-> "",
     deploymentDeleted |-> FALSE]

\* a store whose success branch also resets the latch
storeBootstrapWrong(t, ans, err, at) ==
    IF err = NoError
    THEN [t EXCEPT !.currentToken = "tok", !.tokenExpiry = at + ans.expires_in,
                   !.configURL = ans.config_url, !.logsURL = ans.logs_url,
                   !.deploymentDeleted = FALSE]
    ELSE IF IsPermanentError(err) THEN [t EXCEPT !.deploymentDeleted = TRUE]
    ELSE t

\* the fields Initialize and refresh write under tm.mu after Bootstrap returned err for ans
storeBootstrap(t, ans, err, at) ==
    IF err = NoError
    THEN [t EXCEPT !.currentToken = "tok", !.tokenExpiry = at + ans.expires_in,
                   !.configURL = ans.config_url, !.logsURL = ans.logs_url]
    ELSE IF IsPermanentError(err) THEN [t EXCEPT !.deploymentDeleted = TRUE]
    ELSE t

\* TokenManager.Initialize: the error it returns
InitializeErr(err) ==
    IF err = NoError THEN NoError ELSE errorsNew("initial bootstrap failed")

\* TokenManager.refresh: the error it returns
refreshErr(err) ==
    IF err = NoError THEN NoError
    ELSE IF IsPermanentError(err) THEN err
    ELSE errorsNew("token refresh failed")

\* a calculateRefreshInterval without the minimum of 30 seconds
calculateRefreshIntervalWrong(t, at) == ((t.tokenExpiry - at) * 8) \div 10

\* TokenManager.calculateRefreshInterval
calculateRefreshInterval(t, at) ==
    LET timeUntilExpiry == t.tokenExpiry - at
        refreshAt == IF timeUntilExpiry >= 0 THEN (timeUntilExpiry * 8) \div 10
                     ELSE 0 - (((0 - timeUntilExpiry) * 8) \div 10)
    IN IF refreshAt < MinRefreshInterval THEN MinRefreshInterval ELSE refreshAt

IsDeploymentDeleted == tm.deploymentDeleted

GetToken == tm.currentToken

GetConfigURL == tm.configURL

GetLogsURL == tm.logsURL

(***************************************************************************)
(* Config (config/loader.go)                                               *)
(***************************************************************************)
ZeroConfig ==
    [DeploymentEnabled |-> FALSE, EDLMode |-> "", UpdateFrequency |-> 0, EDLURL |-> ""]

\* DeploymentState (part_000:6-13)
DeploymentActive == 0
DeploymentDisabled == 1
DeploymentDeleted == 2

\* DeploymentState.AllowsAllTraffic
AllowsAllTraffic(s) == s # DeploymentActive

\* a GetDeploymentState that looks at the latch first
GetDeploymentStateWrong(c, hasTokenManager, deleted) ==
    IF hasTokenManager /\ deleted THEN DeploymentDeleted
    ELSE IF ~c.DeploymentEnabled THEN DeploymentDisabled
    ELSE DeploymentActive

\* Config.GetDeploymentState; hasTokenManager is cfg.TokenManager != nil and deleted what
\* its IsDeploymentDeleted answers
GetDeploymentState(c, hasTokenManager, deleted) ==
    IF ~c.DeploymentEnabled
    THEN IF hasTokenManager /\ deleted THEN DeploymentDeleted ELSE DeploymentDisabled
    ELSE DeploymentActive

setDeploymentDisabled(c) ==
    [c EXCEPT !.DeploymentEnabled = FALSE, !.EDLMode = "disabled",
              !.UpdateFrequency = DisabledUpdateFrequency, !.EDLURL = ""]

Purposes == {"allowlist", "blocklist", "other", "disabled", ""}

\* the api.EDLConfig values GetEDLConfig can decode from a 200 body
EDLConfigs ==
    [Enabled : BOOLEAN, Purpose : Purposes \ {"disabled"}, UpdateFrequencySeconds : {0, 30},
     Combined : {<<>>, <<"edl">>}]

DisabledEDLConfig ==
    [Enabled |-> FALSE, Purpose |-> "disabled", UpdateFrequencySeconds |-> 0, Combined |-> <<>>]

applyEDLConfig(c, e) ==
    IF ~e.Enabled THEN setDeploymentDisabled(c)
    ELSE [c EXCEPT !.DeploymentEnabled = TRUE,
                   !.EDLMode = IF e.Purpose = "allowlist" THEN "allowlist" ELSE "blocklist",
                   !.UpdateFrequency = IF e.UpdateFrequencySeconds <= 0
                                       THEN DefaultUpdateFrequency
                                       ELSE e.UpdateFrequencySeconds,
                   !.EDLURL = IF Len(e.Combined) > 0 THEN e.Combined[1] ELSE c.EDLURL]

\* the control plane's answers to GET <config_url>: status, error code of the body
ConfigAnswers ==
    [code : {StatusOK}, errCode : {""}, body : EDLConfigs]
    \cup [code : {StatusNotFound, StatusForbidden, StatusGone, StatusServerError},
          errCode : {"", "DEPLOYMENT_DISABLED", "DEPLOYMENT_DELETED"},
          body : {DisabledEDLConfig}]

\* ConfigClient.GetEDLConfig: <<config, err>>
GetEDLConfig(t, ans) ==
    IF t.configURL = "" THEN <<DisabledEDLConfig, errorsNew("config URL not available")>>
    ELSE IF t.currentToken = "" THEN <<DisabledEDLConfig, errorsNew("no access token available")>>
    ELSE IF ans.code \in {StatusNotFound, StatusForbidden, StatusGone}
    THEN IF ans.errCode \in {"DEPLOYMENT_DISABLED", "DEPLOYMENT_DELETED"}
         THEN <<DisabledEDLConfig, NoError>>
         ELSE IF ans.code = StatusGone
              THEN <<DisabledEDLConfig, PermanentError("gone")>>
              ELSE <<DisabledEDLConfig, errorsNew("config request failed")>>
    ELSE IF ans.code # StatusOK THEN <<DisabledEDLConfig, errorsNew("config request failed")>>
    ELSE <<[ans.body EXCEPT !.Enabled = TRUE], NoError>>

(***************************************************************************)
(* Startup: config.Load -> Config.InitializeServices                       *)
(***************************************************************************)
BootstrapTokens == {"", "jwt", "noclaims"}

\* the process runs: main has neither called os.Exit nor returned
Alive == mainPc \notin {"exited", "stopped"}

NoAnswer == [code |-> 0, expires_in |-> 0, config_url |-> "", logs_url |-> ""]

IdleCaller == [pc |-> "idle", op |-> "", ans |-> NoAnswer, err |-> NoError, token |-> ""]

TokenInit ==
    /\ now = 0
    /\ mainPc = "InitializeServices"
    /\ exitCode = -1
    /\ env \in [ELLIO_BOOTSTRAP : BootstrapTokens]
    /\ cfg = ZeroConfig
    /\ startup = [bootstrapCode |-> 0, initErr |-> NoError, servicesErr |-> NoError]
    /\ tm = NewTokenManager
    /\ refreshLoop = [pc |-> "none", timer |-> 0, ans |-> NoAnswer, last |-> NoError]
    /\ caller = IdleCaller
    /\ bootstrapPosts = 0

\* InitializeServices up to and including TokenManager.Initialize (loader.go:33-53)
MainInitialize(ans) ==
    /\ mainPc = "InitializeServices"
    /\ IF env.ELLIO_BOOTSTRAP = ""
       THEN /\ startup' = [startup EXCEPT !.servicesErr = errorsNew("ELLIO_BOOTSTRAP token is required")]
            /\ mainPc' = "exited"
            /\ exitCode' = 1
            /\ UNCHANGED <<tm, cfg, bootstrapPosts>>
       ELSE LET berr == BootstrapErr(env.ELLIO_BOOTSTRAP, ans)
                ierr == InitializeErr(berr)
            IN /\ tm' = storeBootstrap(tm, ans, berr, now)
               /\ bootstrapPosts' = IF BootstrapSends(env.ELLIO_BOOTSTRAP)
                                    THEN bootstrapPosts + 1 ELSE bootstrapPosts
               /\ IF ierr = NoError
                  THEN /\ startup' = [startup EXCEPT !.bootstrapCode = ans.code]
                       /\ mainPc' = "StartRefreshLoop"
                       /\ UNCHANGED <<cfg, exitCode>>
                  ELSE IF IsPermanentError(ierr)
                  THEN /\ startup' = [startup EXCEPT !.bootstrapCode = ans.code, !.initErr = ierr]
                       /\ cfg' = setDeploymentDisabled(cfg)
                       /\ mainPc' = "initEDL"
                       /\ UNCHANGED exitCode
                  ELSE /\ startup' = [startup EXCEPT
                                        !.bootstrapCode = IF BootstrapSends(env.ELLIO_BOOTSTRAP)
                                                          THEN ans.code ELSE 0,
                                        !.initErr = ierr,
                                        !.servicesErr = errorsNew("failed to bootstrap")]
                       /\ mainPc' = "exited"
                       /\ exitCode' = 1
                       /\ UNCHANGED cfg
    /\ UNCHANGED <<now, env, refreshLoop, caller, accessVars>>
    /\ UNCHANGED shipperVars

\* cfg.TokenManager.StartRefreshLoop(context.Background()) (loader.go:56): spawns the goroutine
MainStartRefreshLoop ==
    /\ mainPc = "StartRefreshLoop"
    /\ refreshLoop' = [refreshLoop EXCEPT !.pc = "spawned"]
    /\ mainPc' = "GetEDLConfig"
    /\ UNCHANGED <<now, exitCode, env, cfg, startup, tm, caller, bootstrapPosts, accessVars>>
    /\ UNCHANGED shipperVars

\* GetEDLConfig and applyEDLConfig (loader.go:59-73)
MainGetEDLConfig(ans) ==
    /\ mainPc = "GetEDLConfig"
    /\ LET r == GetEDLConfig(tm, ans)
       IN IF r[2] = NoError
          THEN /\ cfg' = applyEDLConfig(cfg, r[1])
               /\ mainPc' = "initEDL"
               /\ UNCHANGED <<startup, exitCode>>
          ELSE IF IsPermanentError(r[2])
          THEN /\ cfg' = setDeploymentDisabled(cfg)
               /\ mainPc' = "initEDL"
               /\ UNCHANGED <<startup, exitCode>>
          ELSE /\ startup' = [startup EXCEPT !.servicesErr = errorsNew("failed to fetch EDL config")]
               /\ mainPc' = "exited"
               /\ exitCode' = 1
               /\ UNCHANGED cfg
    /\ UNCHANGED <<now, env, tm, refreshLoop, caller, bootstrapPosts, accessVars>>
    /\ UNCHANGED shipperVars

(***************************************************************************)
(* The refresh loop goroutine (token_manager.go:65-108)                    *)
(***************************************************************************)
\* lines 68-77: the check of the latch, then the first timer
RefreshLoopBegin ==
    /\ Alive
    /\ refreshLoop.pc = "spawned"
    /\ refreshLoop' = IF tm.deploymentDeleted
                      THEN [refreshLoop EXCEPT !.pc = "returned"]
                      ELSE [refreshLoop EXCEPT !.pc = "armed",
                                               !.timer = now + calculateRefreshInterval(tm, now)]
    /\ UNCHANGED <<now, mainPc, exitCode, env, cfg, startup, tm, caller, bootstrapPosts, accessVars>>
    /\ UNCHANGED shipperVars

\* lines 86-95: the timer fires, the latch is read
RefreshLoopFire ==
    /\ Alive
    /\ refreshLoop.pc = "armed"
    /\ now >= refreshLoop.timer
    /\ refreshLoop' = IF tm.deploymentDeleted
                      THEN [refreshLoop EXCEPT !.pc = "returned"]
                      ELSE [refreshLoop EXCEPT !.pc = "refresh"]
    /\ UNCHANGED <<now, mainPc, exitCode, env, cfg, startup, tm, caller, bootstrapPosts, accessVars>>
    /\ UNCHANGED shipperVars

\* line 128 from the loop: the POST is sent and answered
RefreshLoopPost(ans) ==
    /\ Alive
    /\ refreshLoop.pc = "refresh"
    /\ bootstrapPosts < MaxPosts
    /\ bootstrapPosts' = bootstrapPosts + 1
    /\ refreshLoop' = [refreshLoop EXCEPT !.pc = "answered", !.ans = ans]
    /\ UNCHANGED <<now, mainPc, exitCode, env, cfg, startup, tm, caller, accessVars>>
    /\ UNCHANGED shipperVars

\* lines 129-151, then 97-104: the answer is stored and the timer re-armed; last keeps,
\* for the properties only, what this refresh returned
RefreshLoopStore ==
    /\ Alive
    /\ refreshLoop.pc = "answered"
    /\ LET err == BootstrapErr(env.ELLIO_BOOTSTRAP, refreshLoop.ans)
           t2 == storeBootstrap(tm, refreshLoop.ans, err, now)
       IN /\ tm' = t2
          /\ refreshLoop' =
               [refreshLoop EXCEPT !.pc = "armed", !.ans = NoAnswer, !.last = refreshErr(err),
                    !.timer = IF refreshErr(err) # NoError
                              THEN now + RefreshRetryDelay
                              ELSE now + calculateRefreshInterval(t2, now)]
    /\ UNCHANGED <<now, mainPc, exitCode, env, cfg, startup, caller, bootstrapPosts, accessVars>>
    /\ UNCHANGED shipperVars

(***************************************************************************)
(* ForceRefresh and GetTokenWithMinValidity called from another goroutine  *)
(***************************************************************************)
MinValiditySet == {0, 30}

Initialized == Alive /\ mainPc # "InitializeServices"

\* token_manager.go:220-225 up to the POST of refresh
ForceRefreshPost(ans) ==
    /\ Initialized
    /\ caller.pc = "idle"
    /\ bootstrapPosts < MaxPosts
    /\ bootstrapPosts' = bootstrapPosts + 1
    /\ caller' = [pc |-> "answered", op |-> "ForceRefresh", ans |-> ans,
                  err |-> NoError, token |-> ""]
    /\ UNCHANGED <<now, mainPc, exitCode, env, cfg, startup, tm, refreshLoop, accessVars>>
    /\ UNCHANGED shipperVars

\* token_manager.go:184-193: enough validity, the held token is returned
GetTokenWithMinValidityHit(minValidity) ==
    /\ Initialized
    /\ caller.pc = "idle"
    /\ tm.tokenExpiry - now > minValidity
    /\ caller' = [pc |-> "returned", op |-> "GetTokenWithMinValidity", ans |-> NoAnswer,
                  err |-> NoError, token |-> tm.currentToken]
    /\ UNCHANGED <<now, mainPc, exitCode, env, cfg, startup, tm, refreshLoop, bootstrapPosts, accessVars>>
    /\ UNCHANGED shipperVars

\* token_manager.go:195-203: not enough validity, refresh is called
GetTokenWithMinValidityPost(minValidity, ans) ==
    /\ Initialized
    /\ caller.pc = "idle"
    /\ ~(tm.tokenExpiry - now > minValidity)
    /\ bootstrapPosts < MaxPosts
    /\ bootstrapPosts' = bootstrapPosts + 1
    /\ caller' = [pc |-> "answered", op |-> "GetTokenWithMinValidity", ans |-> ans,
                  err |-> NoError, token |-> ""]
    /\ UNCHANGED <<now, mainPc, exitCode, env, cfg, startup, tm, refreshLoop, accessVars>>
    /\ UNCHANGED shipperVars

\* refresh stores the answer (lines 129-151) and the call returns
CallerStore ==
    /\ Alive
    /\ caller.pc = "answered"
    /\ LET err == BootstrapErr(env.ELLIO_BOOTSTRAP, caller.ans)
           t2 == storeBootstrap(tm, caller.ans, err, now)
       IN /\ tm' = t2
          /\ caller' = [caller EXCEPT !.pc = "returned", !.ans = NoAnswer,
                                      !.err = refreshErr(err),
                                      !.token = IF caller.op = "GetTokenWithMinValidity"
                                                THEN t2.currentToken ELSE ""]
    /\ UNCHANGED <<now, mainPc, exitCode, env, cfg, startup, refreshLoop, bootstrapPosts, accessVars>>
    /\ UNCHANGED shipperVars

\* the calling goroutine goes on to its next call
CallerReturn ==
    /\ Alive
    /\ caller.pc = "returned"
    /\ caller' = IdleCaller
    /\ UNCHANGED <<now, mainPc, exitCode, env, cfg, startup, tm, refreshLoop, bootstrapPosts, accessVars>>
    /\ UNCHANGED shipperVars

\* time passes
Tick ==
    /\ Alive
    /\ now + TickStep <= MaxTime
    /\ now' = now + TickStep
    /\ UNCHANGED <<mainPc, exitCode, env, cfg, startup, tm, refreshLoop, caller, bootstrapPosts, accessVars>>
    /\ UNCHANGED shipperVars

(***************************************************************************)
(* Strings.  A string is a sequence of lexical tokens: an address or a     *)
(* prefix literal, a space, a comma, a colon, a hash, a port or other text *)
(***************************************************************************)
AddrLiterals == {"10.0.0.1", "192.168.1.1"}

PrefixLiterals == {"10.0.0.0/8"}

\* strings.TrimSpace
RECURSIVE TrimLeft(_)
TrimLeft(s) == IF s # <<>> /\ Head(s) = " " THEN TrimLeft(Tail(s)) ELSE s

RECURSIVE TrimRight(_)
TrimRight(s) ==
    IF s # <<>> /\ s[Len(s)] = " " THEN TrimRight(SubSeq(s, 1, Len(s) - 1)) ELSE s

TrimSpace(s) == TrimRight(TrimLeft(s))

\* strings.Split(s, ",")[0]
RECURSIVE SplitFirst(_)
SplitFirst(s) ==
    IF s = <<>> \/ Head(s) = "," THEN <<>> ELSE <<Head(s)>> \o SplitFirst(Tail(s))

\* netip.ParseAddr: <<ok, addr>>
ParseAddr(s) ==
    IF Len(s) = 1 /\ s[1] \in AddrLiterals THEN <<TRUE, s[1]>> ELSE <<FALSE, "">>

\* netip.ParsePrefix: <<ok, prefix>>
ParsePrefix(s) ==
    IF Len(s) = 1 /\ s[1] \in PrefixLiterals THEN <<TRUE, s[1]>> ELSE <<FALSE, "">>

\* the addresses of the model a prefix covers
PrefixAddrs(p) == IF p = "10.0.0.0/8" THEN {"10.0.0.1"} ELSE {}

\* net.SplitHostPort: <<ok, host>>; the port follows the last colon
RECURSIVE LastColon(_)
LastColon(s) ==
    IF s = <<>> THEN 0 ELSE IF s[Len(s)] = ":" THEN Len(s) ELSE LastColon(SubSeq(s, 1, Len(s) - 1))

SplitHostPort(s) ==
    LET i == LastColon(s)
    IN IF i = 0 THEN <<FALSE, <<>>>> ELSE <<TRUE, SubSeq(s, 1, i - 1)>>

(***************************************************************************)
(* IP sets (netipx.IPSet behind a pointer) and the EDL parser              *)
(***************************************************************************)
NilIPSet == [isNil |-> TRUE, addrs |-> {}]

EmptyIPSet == [isNil |-> FALSE, addrs |-> {}]

IPSetOf(addrs) == [isNil |-> FALSE, addrs |-> addrs]

\* Fetcher.parseEDL over the lines of a body: <<ipset, count>>
RECURSIVE parseLines(_, _, _)
parseLines(lines, addrs, count) ==
    IF lines = <<>> THEN <<IPSetOf(addrs), count>>
    ELSE LET line == TrimSpace(Head(lines))
             pfx == ParsePrefix(line)
             adr == ParseAddr(line)
         IN IF line = <<>> \/ Head(line) = "#" THEN parseLines(Tail(lines), addrs, count)
            ELSE IF pfx[1] THEN parseLines(Tail(lines), addrs \cup PrefixAddrs(pfx[2]), count + 1)
            ELSE IF adr[1] THEN parseLines(Tail(lines), addrs \cup {adr[2]}, count + 1)
            ELSE parseLines(Tail(lines), addrs, count)

parseEDL(body) == parseLines(body, {}, 0)

\* the bodies the EDL URL serves
EDLBodies ==
    { <<>>,
      << <<"10.0.0.0/8">> >>,
      << <<"#", " ", "text">>, <<" ", "192.168.1.1", " ">>, <<>>, <<"text">> >> }

\* what one Fetcher.fetch call meets: a 200 answer with a body, or a failure
FetchOutcomes == [ok : {TRUE}, body : EDLBodies] \cup [ok : {FALSE}, body : {<<>>}]

\* Fetcher.fetch: [ipset, count, err]
fetch(url, o) ==
    IF url = "" THEN [ipset |-> NilIPSet, count |-> 0, err |-> errorsNew("unsupported protocol scheme")]
    ELSE IF ~o.ok THEN [ipset |-> NilIPSet, count |-> 0, err |-> errorsNew("unexpected status")]
    ELSE LET r == parseEDL(o.body) IN [ipset |-> r[1], count |-> r[2], err |-> NoError]

\* Fetcher.FetchWithRetry from attempt on: outcomes[attempt + 1] is what that attempt meets,
\* cancelAt is the attempt whose wait sees ctx.Done (0: none); attempts counts the fetch
\* calls made and waits lists the delays of the time.After waits that ran out
RECURSIVE fetchLoop(_, _, _, _, _, _)
fetchLoop(url, maxRetryAttempts, outcomes, cancelAt, attempt, lastErr) ==
    IF ~(attempt < maxRetryAttempts)
    THEN [ipset |-> NilIPSet, count |-> 0, err |-> lastErr, attempts |-> attempt,
          waits |-> <<>>]
    ELSE IF attempt > 0 /\ cancelAt = attempt
    THEN [ipset |-> NilIPSet, count |-> 0, err |-> errorsNew("context canceled"),
          attempts |-> attempt, waits |-> <<>>]
    ELSE LET r == fetch(url, outcomes[attempt + 1])
             waited == IF attempt > 0 THEN <<RetryDelay * attempt>> ELSE <<>>
             rest == fetchLoop(url, maxRetryAttempts, outcomes, cancelAt, attempt + 1, r.err)
         IN IF r.err = NoError
            THEN [ipset |-> r.ipset, count |-> r.count, err |-> NoError,
                  attempts |-> attempt + 1, waits |-> waited]
            ELSE [rest EXCEPT !.waits = waited \o @]

\* a FetchWithRetry whose waits do not watch the context
FetchWithRetryWrong(url, maxRetryAttempts, outcomes, cancelAt) ==
    fetchLoop(url, maxRetryAttempts, outcomes, 0, 0, NoError)

FetchWithRetry(url, maxRetryAttempts, outcomes, cancelAt) ==
    fetchLoop(url, maxRetryAttempts, outcomes, cancelAt, 0, NoError)

(***************************************************************************)
(* Matcher (ipmatcher)                                                     *)
(***************************************************************************)
NewMatcher == [ipset |-> EmptyIPSet, count |-> 0]

\* a store that edits the set in place instead of swapping the pointer
MatcherStoreSetWrong(m, ipset) ==
    [m EXCEPT !.ipset = [isNil |-> ipset.isNil, addrs |-> @.addrs \cup ipset.addrs]]

\* Matcher.Update, first store: m.ipset.Store(ipset)
MatcherStoreSet(m, ipset) == [m EXCEPT !.ipset = ipset]

\* Matcher.Update, second store: m.count.Store(count)
MatcherStoreCount(m, count) == [m EXCEPT !.count = count]

\* netipx.IPSet.Contains on a non-nil set
IPSetContains(set, ip) == ip \in set.addrs

(***************************************************************************)
(* Updater (edl)                                                           *)
(***************************************************************************)
ZeroTime == 0 - 1

NewUpdater == [lastUpdate |-> ZeroTime, lastError |-> NoError, updateCount |-> 0]

NoUpdate == [pc |-> "none", by |-> "", ipset |-> NilIPSet, count |-> 0, fetchErr |-> NoError]

\* an updateNow without the early return
updateNowPublishesWrong(err) == TRUE

\* updateNow: whether the fetch result is published (the early return of lines 69-75)
updateNowPublishes(err) == err = NoError

\* updateNow lines 70-72
updateNowFailed(u, err) == [u EXCEPT !.lastError = err]

\* updateNow lines 79-83
updateNowRecorded(u, at) ==
    [u EXCEPT !.lastUpdate = at, !.lastError = NoError, !.updateCount = @ + 1]

\* Updater.GetStatus: under u.mu.RLock, with Matcher.Count read at that moment
GetStatus(u, m) == <<u.lastUpdate, u.lastError, u.updateCount, m.count>>

\* HealthHandler.Ready: the status it writes when called at the given instant
Ready(u, m, at) ==
    LET status == GetStatus(u, m)
    IN IF status[1] = ZeroTime \/ status[4] = 0 THEN StatusServiceUnavailable
       ELSE IF at - status[1] > ReadyMaxAge THEN StatusServiceUnavailable
       ELSE StatusOK

(***************************************************************************)
(* Handler (auth)                                                          *)
(***************************************************************************)
NoHandler ==
    [created |-> FALSE, isBlocklist |-> FALSE, deploymentEnabled |-> FALSE,
     logShipper |-> FALSE, ipHeaderOverride |-> ""]

\* NewHandler, SetIPHeaderOverride, SetLogShipper as main.go:140-156 calls them
NewHandler(edlMode, deploymentEnabled, override, logsURL) ==
    [created |-> TRUE, isBlocklist |-> edlMode = "blocklist",
     deploymentEnabled |-> deploymentEnabled,
     logShipper |-> logsURL # "", ipHeaderOverride |-> override]

\* the headers and the remote address of a request
Requests ==
    [override : {<<>>, <<"192.168.1.1">>},
     xff : {<<>>, <<"10.0.0.1">>, <<" ", "192.168.1.1", ",", "10.0.0.1">>, <<"text">>,
            <<",", "10.0.0.1">>},
     xri : {<<>>, <<"192.168.1.1", " ">>},
     remote : {<<"10.0.0.1", ":", "port">>, <<>>}]

\* an extractClientIP that does not fall through when the configured header is absent
extractClientIPWrong(h, r) ==
    IF h.ipHeaderOverride # "" THEN TrimSpace(SplitFirst(r.override))
    ELSE IF r.xff # <<>> THEN TrimSpace(SplitFirst(r.xff))
    ELSE IF r.xri # <<>> THEN TrimSpace(r.xri)
    ELSE IF SplitHostPort(r.remote)[1] THEN SplitHostPort(r.remote)[2]
    ELSE r.remote

\* Handler.extractClientIP
extractClientIP(h, r) ==
    IF h.ipHeaderOverride # "" /\ r.override # <<>> THEN TrimSpace(SplitFirst(r.override))
    ELSE IF r.xff # <<>> THEN TrimSpace(SplitFirst(r.xff))
    ELSE IF r.xri # <<>> THEN TrimSpace(r.xri)
    ELSE IF SplitHostPort(r.remote)[1] THEN SplitHostPort(r.remote)[2]
    ELSE r.remote

\* an evaluateAccess that parses the address before it looks at the deployment
evaluateAccessBeginWrong(h, clientIP) ==
    IF ~ParseAddr(clientIP)[1] THEN "error"
    ELSE IF ~h.deploymentEnabled THEN "allow"
    ELSE "Contains"

\* Handler.evaluateAccess up to the call of Matcher.Contains:
\* "allow" (line 120), "error" (line 125) or "Contains" (line 128)
evaluateAccessBegin(h, clientIP) ==
    IF ~h.deploymentEnabled THEN "allow"
    ELSE IF ~ParseAddr(clientIP)[1] THEN "error"
    ELSE "Contains"

\* Handler.evaluateAccess line 131
evaluateAccessAllowed(h, inList) == h.isBlocklist # inList

\* a NewAccessEvent that takes every mode but "allowlist" for the blocklist default and
\* is handed the mode the wrong way round
NewAccessEventWrong(h, clientIP) ==
    [outcome |-> "blocked",
     reason |-> IF h.isBlocklist THEN "not_in_allowlist" ELSE "in_blocklist",
     status_code |-> StatusForbidden,
     mode |-> IF h.isBlocklist THEN "allowlist" ELSE "blocklist",
     ip |-> clientIP]

\* logs.NewAccessEvent as sendAccessEvent calls it for a denied request
NewAccessEvent(h, clientIP) ==
    [outcome |-> "blocked",
     reason |-> IF h.isBlocklist THEN "in_blocklist" ELSE "not_in_allowlist",
     status_code |-> StatusForbidden,
     mode |-> IF h.isBlocklist THEN "blocklist" ELSE "allowlist",
     ip |-> clientIP]

NoEvent == [outcome |-> "", reason |-> "", status_code |-> 0, mode |-> "", ip |-> <<>>]

IdleRequest ==
    [pc |-> "idle", clientIP |-> <<>>, set |-> NilIPSet, loadedAfterStore |-> FALSE,
     afterDeleted |-> FALSE, status |-> 0, panicked |-> FALSE, labels |-> <<>>, events |-> <<>>]

(***************************************************************************)
(* RingBuffer (logs/buffer.go).  An event is its number; 0 is the nil slot  *)
(***************************************************************************)
NewRingBuffer(capacity) ==
    [buffer |-> [i \in 0..(capacity - 1) |-> 0], capacity |-> capacity,
     head |-> 0, tail |-> 0, size |-> 0]

\* an Add without the test for a full buffer: it overwrites the oldest item
RingAddWrong(rb, event) ==
    <<[rb EXCEPT !.buffer[rb.tail] = event,
                 !.tail = (rb.tail + 1) % rb.capacity,
                 !.size = rb.size + 1], TRUE>>

\* RingBuffer.Add: <<buffer, ok>>
RingAdd(rb, event) ==
    IF rb.size >= rb.capacity THEN <<rb, FALSE>>
    ELSE <<[rb EXCEPT !.buffer[rb.tail] = event,
                      !.tail = (rb.tail + 1) % rb.capacity,
                      !.size = rb.size + 1], TRUE>>

\* a loop that hands out the items newest first
RECURSIVE RingTakeWrong(_, _, _)
RingTakeWrong(rb, count, events) ==
    IF count = 0 THEN <<rb, events>>
    ELSE RingTakeWrong([rb EXCEPT !.buffer[rb.head] = 0,
                                  !.head = (rb.head + 1) % rb.capacity,
                                  !.size = rb.size - 1],
                       count - 1, <<rb.buffer[rb.head]>> \o events)

\* the loop of Drain and DrainAll: <<buffer, events>>
RECURSIVE RingTake(_, _, _)
RingTake(rb, count, events) ==
    IF count = 0 THEN <<rb, events>>
    ELSE RingTake([rb EXCEPT !.buffer[rb.head] = 0,
                             !.head = (rb.head + 1) % rb.capacity,
                             !.size = rb.size - 1],
                  count - 1, Append(events, rb.buffer[rb.head]))

\* a Drain that hands out nothing and leaves the events in the buffer
RingDrainWrong(rb, maxItems) == <<rb, <<>>>>

\* RingBuffer.Drain
RingDrain(rb, maxItems) ==
    IF rb.size = 0 THEN <<rb, <<>>>>
    ELSE RingTake(rb, IF rb.size > maxItems THEN maxItems ELSE rb.size, <<>>)

\* RingBuffer.DrainAll
RingDrainAll(rb) == IF rb.size = 0 THEN <<rb, <<>>>> ELSE RingTake(rb, rb.size, <<>>)

\* RingBuffer.Get: <<buffer, item, ok>>, item 0 standing for nil
RingGet(rb) ==
    IF rb.size = 0 THEN <<rb, 0, FALSE>>
    ELSE <<[rb EXCEPT !.buffer[rb.head] = 0,
                      !.head = (rb.head + 1) % rb.capacity,
                      !.size = rb.size - 1], rb.buffer[rb.head], TRUE>>

\* RingBuffer.Size
RingSize(rb) == rb.size

\* the events a buffer holds, oldest first
RECURSIVE RingEvents(_, _, _)
RingEvents(rb, i, n) ==
    IF n = 0 THEN <<>> ELSE <<rb.buffer[i]>> \o RingEvents(rb, (i + 1) % rb.capacity, n - 1)

(***************************************************************************)
(* LeakyBucket (part_003); times are whole seconds                          *)
(***************************************************************************)
NewLeakyBucket(capacity, refillRate, at) ==
    [capacity |-> capacity, tokens |-> capacity, refillRate |-> refillRate, lastRefill |-> at]

Min(a, b) == IF a < b THEN a ELSE b

\* LeakyBucket.refill
refill(lb, at) ==
    LET tokensToAdd == (at - lb.lastRefill) * lb.refillRate
    IN IF tokensToAdd > 0
       THEN [lb EXCEPT !.tokens = Min(lb.capacity, lb.tokens + tokensToAdd), !.lastRefill = at]
       ELSE lb

\* LeakyBucket.Allow: <<bucket, ok>>
Allow(lb, tokens, at) ==
    LET b == refill(lb, at)
    IN IF b.tokens >= tokens THEN <<[b EXCEPT !.tokens = b.tokens - tokens], TRUE>>
       ELSE <<b, FALSE>>

\* LeakyBucket.AllowN: Allow(int64(n)), the widening keeps the value
AllowN(lb, n, at) == Allow(lb, n, at)

\* LeakyBucket.AvailableTokens: <<bucket, tokens>>
AvailableTokens(lb, at) == LET b == refill(lb, at) IN <<b, b.tokens>>

\* LeakyBucket.WaitTime: <<bucket, seconds>>, the wait rounded up to whole seconds
WaitTime(lb, tokens, at) ==
    LET b == refill(lb, at)
    IN IF b.tokens >= tokens THEN <<b, 0>>
       ELSE <<b, ((tokens - b.tokens) + b.refillRate - 1) \div b.refillRate>>

(***************************************************************************)
(* LogShipper (part_002)                                                   *)
(***************************************************************************)
NoShipper ==
    [started |-> FALSE, cancelled |-> FALSE, closed |-> FALSE, eventChan |-> <<>>,
     chanCap |-> EventChanCap, failureCount |-> 0, circuitOpen |-> FALSE, lastFailure |-> ZeroTime,
     metrics |-> [EventsShipped |-> 0, EventsDropped |-> 0, ShippingErrors |-> 0,
                  BatchesSent |-> 0]]

\* NewLogShipper and Start
NewLogShipper == [NoShipper EXCEPT !.started = TRUE]

\* a SendEvent whose select has no default case
SendEventCaseWrong(s) ==
    IF s.closed THEN "panic"
    ELSE IF Len(s.eventChan) < s.chanCap THEN "send"
    ELSE "block"

\* the case SendEvent's select takes: a send on a closed channel panics, a channel with
\* room takes the event, else the default case runs
SendEventCase(s) ==
    IF s.closed THEN "panic"
    ELSE IF Len(s.eventChan) < s.chanCap THEN "send"
    ELSE "default"

\* LogShipper.SendEvent(event) where it does not panic: the shipper and the buffer after
\* the call, and whether the event was dropped
SendEvent(s, rb, event) ==
    LET c == SendEventCase(s)
        r == RingAdd(rb, event)
    IN [shipper |-> IF c = "send" THEN [s EXCEPT !.eventChan = Append(@, event)]
                    ELSE IF c = "default" /\ ~r[2]
                    THEN [s EXCEPT !.metrics.EventsDropped = @ + 1]
                    ELSE s,
        buffer |-> IF c = "default" THEN r[1] ELSE rb,
        dropped |-> c = "default" /\ ~r[2]]

\* an isCircuitOpen that never reports the circuit open
isCircuitOpenWrong(s, at) == <<s, FALSE>>

\* LogShipper.isCircuitOpen: <<shipper, open>>
isCircuitOpen(s, at) ==
    IF ~s.circuitOpen THEN <<s, FALSE>>
    ELSE IF at - s.lastFailure > circuitBreakerTimeout
    THEN <<[s EXCEPT !.circuitOpen = FALSE, !.failureCount = 0], FALSE>>
    ELSE <<s, TRUE>>

\* a recordFailure that opens the circuit at the first failure
recordFailureWrong(s, at) ==
    [s EXCEPT !.failureCount = s.failureCount + 1, !.lastFailure = at, !.circuitOpen = TRUE]

\* LogShipper.recordFailure
recordFailure(s, at) ==
    [s EXCEPT !.failureCount = s.failureCount + 1, !.lastFailure = at,
              !.circuitOpen = IF s.failureCount + 1 >= circuitBreakerThreshold
                              THEN TRUE ELSE s.circuitOpen]

\* LogShipper.recordSuccess
recordSuccess(s) == [s EXCEPT !.failureCount = 0, !.circuitOpen = FALSE]

\* LogShipper.send: the error it returns when the logs endpoint answers 2xx (ok) or not;
\* the request carries s.ctx, and client.Do fails once that context is cancelled
send(s, t, ok) ==
    IF t.logsURL = "" THEN errorsNew("logs URL not available")
    ELSE IF t.currentToken = "" THEN errorsNew("access token not available")
    ELSE IF s.cancelled THEN errorsNew("request failed")
    ELSE IF ok THEN NoError
    ELSE errorsNew("server error")

\* an isRetryableError that takes no error for retryable
isRetryableErrorWrong(err) == FALSE

\* isRetryableError (part_002:388-390)
isRetryableError(err) == TRUE

\* sendWithRetry's loop from attempt on, with the retry count of the source: answers[i]
\* tells whether the logs endpoint answers the i-th POST with 2xx; attempts counts the
\* send calls made and sleeps lists the time.Sleep delays in seconds
RECURSIVE sendLoop(_, _, _, _, _, _)
sendLoop(s, t, answers, attempt, backoff, lastErr) ==
    IF ~(attempt < sendMaxRetries)
    THEN [err |-> lastErr, attempts |-> attempt, sleeps |-> <<>>]
    ELSE LET slept == IF attempt > 0 THEN <<backoff>> ELSE <<>>
             next == IF attempt > 0 THEN Min(backoff * 2, maxBackoff) ELSE backoff
             err == send(s, t, answers[attempt + 1])
             rest == sendLoop(s, t, answers, attempt + 1, next, err)
         IN IF err = NoError \/ ~isRetryableError(err)
            THEN [err |-> err, attempts |-> attempt + 1, sleeps |-> slept]
            ELSE [rest EXCEPT !.sleeps = slept \o @]

\* LogShipper.sendWithRetry
sendWithRetry(s, t, answers) == sendLoop(s, t, answers, 0, initialBackoff, NoError)

\* a requeue that starts with the last event of the batch
RECURSIVE requeueWrong(_, _, _)
requeueWrong(rb, events, dropped) ==
    IF events = <<>> THEN [buffer |-> rb, dropped |-> dropped]
    ELSE LET last == events[Len(events)]
             r == RingAdd(rb, last)
         IN requeueWrong(r[1], SubSeq(events, 1, Len(events) - 1),
                         IF r[2] THEN dropped ELSE Append(dropped, last))

\* the loop "if !s.buffer.Add(event) { EventsDropped.Add(1) }" of shipBatch:
\* [buffer, dropped], dropped being the events the full buffer refused
RECURSIVE requeue(_, _, _)
requeue(rb, events, dropped) ==
    IF events = <<>> THEN [buffer |-> rb, dropped |-> dropped]
    ELSE LET r == RingAdd(rb, Head(events))
         IN requeue(r[1], Tail(events),
                    IF r[2] THEN dropped ELSE Append(dropped, Head(events)))

\* tally after one counter increment for each of the events
RECURSIVE counted(_, _)
counted(t, events) ==
    IF events = <<>> THEN t
    ELSE counted([t EXCEPT ![Head(events)] = @ + 1], Tail(events))

NoShip == [pc |-> "none", by |-> "", events |-> <<>>, attempt |-> 0, wake |-> 0]

NoWorker == [pc |-> "none", batch |-> <<>>]

\* the Stop call: its position, the end of its wait, the events flushBuffer has still to
\* ship and the error returned; for the properties also what DrainAll gave flushBuffer, the
\* value of events_shipped at that moment, and whether one of the flush's shipments was
\* refused by the endpoint, met the open circuit or was denied a token
NoStop ==
    [pc |-> "none", deadline |-> 0, events |-> <<>>, err |-> NoError,
     drained |-> <<>>, shipped |-> 0, hindered |-> FALSE]

\* no call made yet: the number of calls, the last call with its argument and results, the
\* items Add accepted and those Get, Drain and DrainAll returned, the grants of Allow
NoCalls ==
    [n |-> 0, op |-> "", arg |-> 0, ok |-> FALSE, items |-> <<>>, value |-> 0,
     added |-> <<>>, taken |-> <<>>, allowed |-> <<>>]

ShipperInit ==
    /\ shipper = NoShipper
    /\ buffer = NewRingBuffer(LogBufferSize)
    /\ bucket = NewLeakyBucket(LeakyBucketCapacity, LeakyBucketRefillRate, 0)
    /\ worker = NoWorker
    /\ ship = NoShip
    /\ stop = NoStop
    /\ sent = 0
    /\ tally = [e \in 1..MaxEvents |-> 0]
    /\ streak = 0
    /\ calls = NoCalls

AccessInit ==
    /\ fetcherCfg = [MaxRetryAttempts |-> 0, IPHeaderOverride |-> ""]
    /\ rootCancelled = FALSE
    /\ matcher = NewMatcher
    /\ updater = NewUpdater
    /\ upd = NoUpdate
    /\ ticker = 0
    /\ handler = NoHandler
    /\ req = IdleRequest
    /\ updateArgs = {}
    /\ everStored = FALSE

Init == TokenInit /\ AccessInit /\ ShipperInit

(***************************************************************************)
(* main: initEDL, initAuthHandler, the servers, waitForShutdown            *)
(***************************************************************************)
RetryAttemptsSet == {0, 1, 2}

IPHeaderOverrides == {"", "X-Client-IP"}

\* main.go:108-132; MAX_RETRY_ATTEMPTS and IP_HEADER_OVERRIDE are drawn here, where
\* the values LoadFromEnv read are first used
MainInitEDL(maxRetryAttempts, override) ==
    /\ mainPc = "initEDL"
    /\ fetcherCfg' = [MaxRetryAttempts |-> maxRetryAttempts, IPHeaderOverride |-> override]
    /\ IF cfg.DeploymentEnabled
       THEN /\ upd' = [NoUpdate EXCEPT !.pc = "FetchWithRetry", !.by = "Start"]
            /\ mainPc' = "Updater.Start"
       ELSE /\ mainPc' = "initAuthHandler"
            /\ UNCHANGED upd
    /\ UNCHANGED <<now, exitCode, env, cfg, startup, tm, refreshLoop, caller, bootstrapPosts>>
    /\ UNCHANGED <<rootCancelled, matcher, updater, ticker, handler, req, updateArgs, everStored>>
    /\ UNCHANGED shipperVars

\* main.go:140-183 and 185-255: the handler is built, with a started log shipper when
\* there is a logs URL, and the servers listen
MainInitAuthHandler ==
    /\ mainPc = "initAuthHandler"
    /\ handler' = NewHandler(cfg.EDLMode, cfg.DeploymentEnabled, fetcherCfg.IPHeaderOverride,
                             GetLogsURL)
    /\ IF GetLogsURL # ""
       THEN /\ shipper' = NewLogShipper
            /\ bucket' = NewLeakyBucket(LeakyBucketCapacity, LeakyBucketRefillRate, now)
            /\ worker' = [NoWorker EXCEPT !.pc = "select"]
       ELSE UNCHANGED <<shipper, bucket, worker>>
    /\ UNCHANGED <<buffer, ship, stop, sent, tally, streak, calls>>
    /\ mainPc' = "serving"
    /\ UNCHANGED <<now, exitCode, env, cfg, startup, tm, refreshLoop, caller, bootstrapPosts>>
    /\ UNCHANGED <<fetcherCfg, rootCancelled, matcher, updater, upd, ticker, req, updateArgs,
                   everStored>>

\* waitForShutdown, main.go:257-290: the signal, then one call after the other, then
\* main's deferred calls (main.go:56)
ShutdownNext(pc) ==
    CASE pc = "serving" -> "logShipper.Stop"
      [] pc = "logShipper.Stop" -> "metricsCollector.Stop"
      [] pc = "metricsCollector.Stop" -> "server.Shutdown"
      [] pc = "server.Shutdown" -> "cancel"
      [] pc = "cancel" -> "return"
      [] pc = "return" -> "stopped"

MainShutdownStep ==
    /\ mainPc \in {"serving", "logShipper.Stop", "metricsCollector.Stop", "server.Shutdown",
                   "cancel", "return"}
    /\ mainPc = "logShipper.Stop" => (~shipper.started \/ stop.pc = "returned")
    /\ UNCHANGED shipperVars
    /\ mainPc' = ShutdownNext(mainPc)
    /\ rootCancelled' = (rootCancelled \/ mainPc = "cancel")
    /\ UNCHANGED <<now, exitCode, env, cfg, startup, tm, refreshLoop, caller, bootstrapPosts>>
    /\ UNCHANGED <<fetcherCfg, matcher, updater, upd, ticker, handler, req, updateArgs,
                   everStored>>

\* the main server accepts requests until server.Shutdown is called
ServerListening ==
    mainPc \in {"serving", "logShipper.Stop", "metricsCollector.Stop", "server.Shutdown"}

(***************************************************************************)
(* Updater.updateNow, called by Start (main) and by runUpdateLoop          *)
(***************************************************************************)
\* line 68 and, when the fetch failed, lines 69-75 and the caller's handling:
\* Start returns the error and main exits (main.go:113-116), the loop logs it
UpdateFetch(outcomes, cancelAt) ==
    /\ Alive
    /\ upd.pc = "FetchWithRetry"
    /\ LET r == FetchWithRetry(cfg.EDLURL, fetcherCfg.MaxRetryAttempts, outcomes, cancelAt)
       IN IF updateNowPublishes(r.err)
          THEN /\ upd' = [upd EXCEPT !.pc = "Update", !.ipset = r.ipset, !.count = r.count,
                                     !.fetchErr = r.err]
               /\ updateArgs' = updateArgs \cup {r.ipset}
               /\ UNCHANGED <<updater, mainPc, exitCode>>
          ELSE /\ updater' = updateNowFailed(updater, r.err)
               /\ upd' = [upd EXCEPT !.pc = IF upd.by = "Start" THEN "none" ELSE "idle",
                                     !.fetchErr = r.err]
               /\ mainPc' = IF upd.by = "Start" THEN "exited" ELSE mainPc
               /\ exitCode' = IF upd.by = "Start" THEN 1 ELSE exitCode
               /\ UNCHANGED updateArgs
    /\ UNCHANGED <<now, env, cfg, startup, tm, refreshLoop, caller, bootstrapPosts>>
    /\ UNCHANGED <<fetcherCfg, rootCancelled, matcher, ticker, handler, req, everStored>>
    /\ UNCHANGED shipperVars

\* line 77, Matcher.Update's first store
UpdateStoreSet ==
    /\ Alive
    /\ upd.pc = "Update"
    /\ matcher' = MatcherStoreSet(matcher, upd.ipset)
    /\ everStored' = TRUE
    /\ upd' = [upd EXCEPT !.pc = "count.Store"]
    /\ UNCHANGED tokenVars
    /\ UNCHANGED <<fetcherCfg, rootCancelled, updater, ticker, handler, req, updateArgs>>
    /\ UNCHANGED shipperVars

\* line 77, Matcher.Update's second store
UpdateStoreCount ==
    /\ Alive
    /\ upd.pc = "count.Store"
    /\ matcher' = MatcherStoreCount(matcher, upd.count)
    /\ upd' = [upd EXCEPT !.pc = "record"]
    /\ UNCHANGED tokenVars
    /\ UNCHANGED <<fetcherCfg, rootCancelled, updater, ticker, handler, req, updateArgs,
                   everStored>>
    /\ UNCHANGED shipperVars

\* lines 79-104; when Start called, it spawns runUpdateLoop and returns to main
UpdateRecord ==
    /\ Alive
    /\ upd.pc = "record"
    /\ updater' = updateNowRecorded(updater, now)
    /\ upd' = [upd EXCEPT !.pc = "idle"]
    /\ ticker' = IF upd.by = "Start" THEN now + cfg.UpdateFrequency ELSE ticker
    /\ mainPc' = IF upd.by = "Start" THEN "initAuthHandler" ELSE mainPc
    /\ UNCHANGED <<now, exitCode, env, cfg, startup, tm, refreshLoop, caller, bootstrapPosts>>
    /\ UNCHANGED <<fetcherCfg, rootCancelled, matcher, handler, req, updateArgs, everStored>>
    /\ UNCHANGED shipperVars

\* runUpdateLoop: the ticker fires
UpdateTick ==
    /\ Alive
    /\ upd.pc = "idle"
    /\ now >= ticker
    /\ updater.updateCount < MaxUpdates
    /\ upd' = [NoUpdate EXCEPT !.pc = "FetchWithRetry", !.by = "loop"]
    /\ ticker' = ticker + cfg.UpdateFrequency
    /\ UNCHANGED tokenVars
    /\ UNCHANGED <<fetcherCfg, rootCancelled, matcher, updater, handler, req, updateArgs,
                   everStored>>
    /\ UNCHANGED shipperVars

\* runUpdateLoop: ctx.Done
UpdateLoopExit ==
    /\ Alive
    /\ upd.pc = "idle"
    /\ rootCancelled
    /\ upd' = [upd EXCEPT !.pc = "exited"]
    /\ UNCHANGED tokenVars
    /\ UNCHANGED <<fetcherCfg, rootCancelled, matcher, updater, ticker, handler, req,
                   updateArgs, everStored>>
    /\ UNCHANGED shipperVars

(***************************************************************************)
(* Handler.ServeHTTP                                                       *)
(***************************************************************************)
\* lines 54-77 up to the call of Matcher.Contains; afterDeleted records, for the
\* properties only, whether the latch was set when the request arrived
ServeHTTPBegin(r) ==
    /\ Alive
    /\ ServerListening
    /\ req.pc = "idle"
    /\ LET clientIP == extractClientIP(handler, r)
           e == evaluateAccessBegin(handler, clientIP)
           arrived == [IdleRequest EXCEPT !.afterDeleted = IsDeploymentDeleted]
       IN req' =
            IF clientIP = <<>>
            THEN [arrived EXCEPT !.pc = "done", !.status = StatusBadRequest,
                                 !.labels = <<"invalid">>]
            ELSE IF e = "allow"
            THEN [arrived EXCEPT !.pc = "done", !.clientIP = clientIP,
                                 !.status = StatusOK, !.labels = <<"allowed">>]
            ELSE IF e = "error"
            THEN [arrived EXCEPT !.pc = "done", !.clientIP = clientIP,
                                 !.status = StatusBadRequest, !.labels = <<"invalid">>]
            ELSE [arrived EXCEPT !.pc = "Contains", !.clientIP = clientIP]
    /\ UNCHANGED tokenVars
    /\ UNCHANGED <<fetcherCfg, rootCancelled, matcher, updater, upd, ticker, handler,
                   updateArgs, everStored>>
    /\ UNCHANGED shipperVars

\* Matcher.Contains: set := m.ipset.Load()
ServeHTTPLoad ==
    /\ Alive
    /\ req.pc = "Contains"
    /\ req' = [req EXCEPT !.pc = "loaded", !.set = matcher.ipset,
                          !.loadedAfterStore = everStored]
    /\ UNCHANGED tokenVars
    /\ UNCHANGED <<fetcherCfg, rootCancelled, matcher, updater, upd, ticker, handler,
                   updateArgs, everStored>>
    /\ UNCHANGED shipperVars

\* set.Contains(ip), then lines 131 and 79-93 up to the call of SendEvent; a nil set
\* makes Contains panic
ServeHTTPFinish ==
    /\ Alive
    /\ req.pc = "loaded"
    /\ LET allowed == evaluateAccessAllowed(handler,
                          IPSetContains(req.set, ParseAddr(req.clientIP)[2]))
       IN /\ (~req.set.isNil /\ ~allowed /\ handler.logShipper) => sent < MaxEvents
          /\ req' =
               IF req.set.isNil
               THEN [req EXCEPT !.pc = "done", !.panicked = TRUE]
               ELSE IF allowed
               THEN [req EXCEPT !.pc = "done", !.status = StatusOK, !.labels = <<"allowed">>]
               ELSE IF handler.logShipper
               THEN [req EXCEPT !.pc = "SendEvent", !.labels = <<"denied">>,
                                !.events = <<NewAccessEvent(handler, req.clientIP)>>]
               ELSE [req EXCEPT !.pc = "done", !.status = StatusForbidden,
                                !.labels = <<"denied">>]
    /\ UNCHANGED tokenVars
    /\ UNCHANGED <<fetcherCfg, rootCancelled, matcher, updater, upd, ticker, handler,
                   updateArgs, everStored>>
    /\ UNCHANGED shipperVars

\* sendAccessEvent's call of LogShipper.SendEvent (part_002:136-145), then serveForbidden
ServeHTTPSendEvent ==
    /\ Alive
    /\ req.pc = "SendEvent"
    /\ SendEventCase(shipper) # "block"
    /\ sent' = sent + 1
    /\ LET event == sent + 1
           c == SendEventCase(shipper)
           r == SendEvent(shipper, buffer, event)
       IN /\ req' = IF c = "panic" THEN [req EXCEPT !.pc = "done", !.panicked = TRUE]
                    ELSE [req EXCEPT !.pc = "done", !.status = StatusForbidden]
          /\ shipper' = r.shipper
          /\ buffer' = r.buffer
          /\ tally' = IF r.dropped THEN counted(tally, <<event>>) ELSE tally
    /\ UNCHANGED tokenVars
    /\ UNCHANGED <<fetcherCfg, rootCancelled, matcher, updater, upd, ticker, handler,
                   updateArgs, everStored>>
    /\ UNCHANGED <<bucket, worker, ship, stop, streak, calls>>

\* the goroutine takes its next request
ServeHTTPReturn ==
    /\ Alive
    /\ req.pc = "done"
    /\ req' = IdleRequest
    /\ UNCHANGED tokenVars
    /\ UNCHANGED <<fetcherCfg, rootCancelled, matcher, updater, upd, ticker, handler,
                   updateArgs, everStored>>
    /\ UNCHANGED shipperVars

(***************************************************************************)
(* LogShipper.processEvents, shipBatch and Stop                            *)
(***************************************************************************)
\* a call of shipBatch(events); the caller's slice is held in ship.events from here on
StartShip(by, events) == [NoShip EXCEPT !.pc = "shipBatch", !.by = by, !.events = events]

ShipperIdleVars == <<tokenVars, accessVars, sent, streak, calls>>

\* processEvents, case <-s.ctx.Done()
WorkerCtxDone ==
    /\ worker.pc = "select"
    /\ shipper.cancelled
    /\ IF worker.batch # <<>>
       THEN /\ ship' = StartShip("exit", worker.batch)
            /\ worker' = [pc |-> "shipBatch", batch |-> <<>>]
       ELSE /\ worker' = [worker EXCEPT !.pc = "exited"]
            /\ UNCHANGED ship
    /\ UNCHANGED <<ShipperIdleVars, shipper, buffer, bucket, stop, tally>>

\* a test that lets the batch grow one event beyond batchSize
batchFullWrong(batch) == Len(batch) > LogBatchSize

\* processEvents line 172: len(batch) >= s.batchSize
batchFull(batch) == Len(batch) >= LogBatchSize

\* processEvents, case event, ok := <-s.eventChan with an event
WorkerReceive ==
    /\ worker.pc = "select"
    /\ shipper.eventChan # <<>>
    /\ shipper' = [shipper EXCEPT !.eventChan = Tail(@)]
    /\ LET batch == Append(worker.batch, Head(shipper.eventChan))
       IN IF batchFull(batch)
          THEN /\ ship' = StartShip("batch", batch)
               /\ worker' = [pc |-> "shipBatch", batch |-> <<>>]
          ELSE /\ worker' = [worker EXCEPT !.batch = batch]
               /\ UNCHANGED ship
    /\ UNCHANGED <<ShipperIdleVars, buffer, bucket, stop, tally>>

\* processEvents, case event, ok := <-s.eventChan on the closed and emptied channel
WorkerChanClosed ==
    /\ worker.pc = "select"
    /\ shipper.eventChan = <<>>
    /\ shipper.closed
    /\ IF worker.batch # <<>>
       THEN /\ ship' = StartShip("exit", worker.batch)
            /\ worker' = [pc |-> "shipBatch", batch |-> <<>>]
       ELSE /\ worker' = [worker EXCEPT !.pc = "exited"]
            /\ UNCHANGED ship
    /\ UNCHANGED <<ShipperIdleVars, shipper, buffer, bucket, stop, tally>>

\* processEvents, case <-ticker.C; LOG_FLUSH_INTERVAL can be far below the clock's grain
WorkerTicker ==
    /\ worker.pc = "select"
    /\ IF worker.batch # <<>>
       THEN /\ ship' = StartShip("ticker", worker.batch)
            /\ worker' = [pc |-> "shipBatch", batch |-> <<>>]
       ELSE /\ worker' = [worker EXCEPT !.pc = "processBufferedEvents"]
            /\ UNCHANGED ship
    /\ UNCHANGED <<ShipperIdleVars, shipper, buffer, bucket, stop, tally>>

\* processBufferedEvents: Drain(batchSize), then shipBatch when there are events
WorkerProcessBuffered ==
    /\ worker.pc = "processBufferedEvents"
    /\ LET r == RingDrain(buffer, LogBatchSize)
       IN /\ buffer' = r[1]
          /\ IF r[2] # <<>>
             THEN /\ ship' = StartShip("buffered", r[2])
                  /\ worker' = [worker EXCEPT !.pc = "shipBatch"]
             ELSE /\ worker' = [worker EXCEPT !.pc = "select"]
                  /\ UNCHANGED ship
    /\ UNCHANGED <<ShipperIdleVars, shipper, bucket, stop, tally>>

\* shipBatch returned to processEvents
WorkerResume ==
    /\ worker.pc = "shipBatch"
    /\ ship.pc = "return"
    /\ ship.by \in {"exit", "batch", "ticker", "buffered"}
    /\ ship' = NoShip
    /\ worker' = [worker EXCEPT !.pc = CASE ship.by = "exit" -> "exited"
                                         [] ship.by = "ticker" -> "processBufferedEvents"
                                         [] OTHER -> "select"]
    /\ UNCHANGED <<ShipperIdleVars, shipper, buffer, bucket, stop, tally>>

\* the events go back to the buffer, those it refuses are counted as dropped
ShipRequeued(s) ==
    LET q == requeue(buffer, ship.events, <<>>)
    IN /\ buffer' = q.buffer
       /\ shipper' = [s EXCEPT !.metrics.EventsDropped = @ + Len(q.dropped)]
       /\ tally' = counted(tally, q.dropped)
       /\ ship' = [ship EXCEPT !.pc = "return", !.events = <<>>]

\* stop, with a note when a shipment of the flush is kept from succeeding by something
\* other than the shipper itself (history)
flushHindered(h) ==
    IF ship.by = "flushBuffer" /\ h THEN [stop EXCEPT !.hindered = TRUE] ELSE stop

\* shipBatch lines 196-208: the circuit breaker, then the bucket's WaitTime
ShipBatchBegin ==
    /\ ship.pc = "shipBatch"
    /\ LET c == isCircuitOpen(shipper, now)
           w == WaitTime(bucket, 1, now)
       IN IF c[2]
          THEN ShipRequeued(c[1]) /\ UNCHANGED bucket
          ELSE /\ shipper' = c[1]
               /\ bucket' = w[1]
               /\ ship' = IF w[2] > 0
                          THEN [ship EXCEPT !.pc = "Sleep", !.wake = now + w[2]]
                          ELSE [ship EXCEPT !.pc = "Allow"]
               /\ UNCHANGED <<buffer, tally>>
    /\ stop' = flushHindered(isCircuitOpen(shipper, now)[2])
    /\ UNCHANGED <<ShipperIdleVars, worker>>

\* time.Sleep(waitTime) is over
ShipBatchWake ==
    /\ ship.pc = "Sleep"
    /\ now >= ship.wake
    /\ ship' = [ship EXCEPT !.pc = "Allow"]
    /\ UNCHANGED <<ShipperIdleVars, shipper, buffer, bucket, worker, stop, tally>>

\* shipBatch lines 210-217: bucket.Allow(1)
ShipBatchAllow ==
    /\ ship.pc = "Allow"
    /\ LET a == Allow(bucket, 1, now)
       IN /\ bucket' = a[1]
          /\ IF a[2]
             THEN /\ ship' = [ship EXCEPT !.pc = "send", !.attempt = 0]
                  /\ UNCHANGED <<shipper, buffer, tally>>
             ELSE ShipRequeued(shipper)
    /\ stop' = flushHindered(~Allow(bucket, 1, now)[2])
    /\ UNCHANGED <<ShipperIdleVars, worker>>

\* one attempt of sendWithRetry answered, and after the last one shipBatch lines 227-245
ShipBatchSend(ok) ==
    /\ ship.pc = "send"
    /\ LET err == send(shipper, tm, ok)
       IN IF err = NoError
          THEN /\ shipper' = [recordSuccess(shipper) EXCEPT
                                !.metrics.EventsShipped = @ + Len(ship.events),
                                !.metrics.BatchesSent = @ + 1]
               /\ tally' = counted(tally, ship.events)
               /\ ship' = [ship EXCEPT !.pc = "return", !.events = <<>>]
               /\ UNCHANGED buffer
          ELSE IF ship.attempt + 1 < maxRetries
          THEN /\ ship' = [ship EXCEPT !.pc = "backoff", !.attempt = @ + 1]
               /\ UNCHANGED <<shipper, buffer, tally>>
          ELSE ShipRequeued([recordFailure(shipper, now) EXCEPT
                               !.metrics.ShippingErrors = @ + 1])
    /\ streak' = (CASE ship'.pc = "backoff" -> streak
                    [] shipper'.metrics.BatchesSent # shipper.metrics.BatchesSent -> 0
                    [] OTHER -> streak + 1)
    /\ stop' = flushHindered(~ok)
    /\ UNCHANGED <<tokenVars, accessVars, sent, calls, bucket, worker>>

\* time.Sleep(backoff) is over; the backoffs are below the clock's grain
ShipBatchBackoff ==
    /\ ship.pc = "backoff"
    /\ ship' = [ship EXCEPT !.pc = "send"]
    /\ UNCHANGED <<ShipperIdleVars, shipper, buffer, bucket, worker, stop, tally>>

\* Stop line 118, called by waitForShutdown: s.cancel()
StopCancel ==
    /\ mainPc = "logShipper.Stop"
    /\ shipper.started
    /\ stop.pc = "none"
    /\ shipper' = [shipper EXCEPT !.cancelled = TRUE]
    /\ stop' = [stop EXCEPT !.pc = "close"]
    /\ UNCHANGED <<ShipperIdleVars, buffer, bucket, worker, ship, tally>>

\* Stop lines 119-127: close(s.eventChan), then the wait for the worker begins
StopClose ==
    /\ stop.pc = "close"
    /\ shipper' = [shipper EXCEPT !.closed = TRUE]
    /\ stop' = [stop EXCEPT !.pc = "wait", !.deadline = now + StopTimeout]
    /\ UNCHANGED <<ShipperIdleVars, buffer, bucket, worker, ship, tally>>

\* Stop, case <-done: the worker has returned; flushBuffer's DrainAll
StopDone ==
    /\ stop.pc = "wait"
    /\ worker.pc = "exited"
    /\ LET r == RingDrainAll(buffer)
       IN /\ buffer' = r[1]
          /\ stop' = [stop EXCEPT !.pc = "flushBuffer", !.events = r[2], !.drained = r[2],
                                  !.shipped = shipper.metrics.EventsShipped]
    /\ UNCHANGED <<ShipperIdleVars, shipper, bucket, worker, ship, tally>>

\* Stop, case <-time.After(10 * time.Second)
StopTimedOut ==
    /\ stop.pc = "wait"
    /\ now >= stop.deadline
    /\ stop' = [stop EXCEPT !.pc = "returned",
                            !.err = errorsNew("timeout waiting for log shipper to stop")]
    /\ UNCHANGED <<ShipperIdleVars, shipper, buffer, bucket, worker, ship, tally>>

\* flushBuffer's loop: the next batch is shipped, or Stop returns nil
StopFlush ==
    /\ stop.pc = "flushBuffer"
    /\ ship.pc = "none" \/ (ship.pc = "return" /\ ship.by = "flushBuffer")
    /\ IF stop.events = <<>>
       THEN /\ stop' = [stop EXCEPT !.pc = "returned"]
            /\ ship' = NoShip
       ELSE LET batchSize == Min(Len(stop.events), LogBatchSize)
            IN /\ ship' = StartShip("flushBuffer", SubSeq(stop.events, 1, batchSize))
               /\ stop' = [stop EXCEPT
                             !.events = SubSeq(@, batchSize + 1, Len(stop.events))]
    /\ UNCHANGED <<ShipperIdleVars, shipper, buffer, bucket, worker, tally>>

\* one deployment stands for those that ship logs: an allowlist with a logs URL
ShipperBootstrapAnswers ==
    {a \in BootstrapAnswers : a.code = StatusOK /\ a.expires_in = 60 /\ a.logs_url # ""}

ShipperConfigAnswers ==
    {a \in ConfigAnswers : /\ a.code = StatusOK
                           /\ a.body.Purpose = "allowlist"
                           /\ a.body.UpdateFrequencySeconds = 0
                           /\ a.body.Combined # <<>>}

ShipperRequests ==
    {r \in Requests : r.override = <<>> /\ r.xff = <<"10.0.0.1">> /\ r.xri = <<>> /\ r.remote # <<>>}

FetchOutcomeSeqs == [1..fetcherCfg.MaxRetryAttempts -> FetchOutcomes]

CancelPoints ==
    {0} \cup (IF rootCancelled THEN 1..(fetcherCfg.MaxRetryAttempts - 1) ELSE {})

\* the handler, the updater and the matcher never read the token's expiry: one expires_in
\* stands for all of them here; deployments with a logs URL run under SpecShipper
StartupAnswers == {a \in BootstrapAnswers : a.expires_in \in {0, 60} /\ a.logs_url = ""}

Next ==
    \/ \E ans \in StartupAnswers : MainInitialize(ans)
    \/ MainStartRefreshLoop
    \/ \E ans \in ConfigAnswers : MainGetEDLConfig(ans)
    \/ \E n \in RetryAttemptsSet, o \in IPHeaderOverrides : MainInitEDL(n, o)
    \/ MainInitAuthHandler
    \/ MainShutdownStep
    \/ \E os \in FetchOutcomeSeqs, c \in CancelPoints : UpdateFetch(os, c)
    \/ UpdateStoreSet
    \/ UpdateStoreCount
    \/ UpdateRecord
    \/ UpdateTick
    \/ UpdateLoopExit
    \/ \E r \in Requests : ServeHTTPBegin(r)
    \/ ServeHTTPLoad
    \/ ServeHTTPFinish
    \/ ServeHTTPReturn
    \/ Tick

Spec == Init /\ [][Next]_vars


(***************************************************************************)
(* Properties of the access path, checked under Spec                       *)
(***************************************************************************)
\* a request the handler has finished, with the client IP it extracted
Answered == req.pc = "done" /\ req.clientIP # <<>>

ValidIP == ParseAddr(req.clientIP)[1]

\* C1: a request with a valid client IP is answered 200 or 403 only, and 200 exactly when
\* the deployment is not enabled, or the mode is allowlist and the set contains the IP,
\* or the mode is blocklist and the set does not contain it
C1_ValidIPGets200Or403 ==
    (Answered /\ ValidIP) =>
        LET inList == IPSetContains(req.set, ParseAddr(req.clientIP)[2])
        IN /\ req.status \in {StatusOK, StatusForbidden}
           /\ (req.status = StatusOK) <=>
                  \/ ~cfg.DeploymentEnabled
                  \/ cfg.EDLMode # "blocklist" /\ inList
                  \/ cfg.EDLMode = "blocklist" /\ ~inList

\* C2: with DeploymentEnabled false every request with a non-empty client IP gets 200
C2_DisabledAllowsAll ==
    (Answered /\ ~handler.deploymentEnabled) => req.status = StatusOK

\* a request of a disabled deployment was answered although its client IP does not parse
C2_Witness ==
    /\ Answered
    /\ ~handler.deploymentEnabled
    /\ ~ValidIP
    /\ req.status = StatusOK

\* C3: Contains evaluates one complete set: the initial empty set or the set of one single
\* Update call; after the first store it is the set of an Update call, so that between
\* non-empty sets no reader sees an empty one
C3_ContainsSeesOneSet ==
    (req.pc = "loaded") =>
        /\ req.set \in {EmptyIPSet} \cup updateArgs
        /\ req.loadedAfterStore => req.set \in updateArgs
        /\ (req.loadedAfterStore /\ \A a \in updateArgs : a.addrs # {}) => req.set.addrs # {}

\* a request loaded the set of the second Update while that Update was still running
C3_Witness ==
    /\ req.pc = "loaded"
    /\ upd.pc = "count.Store"
    /\ upd.by = "loop"
    /\ Cardinality(updateArgs) >= 2
    /\ req.set = upd.ipset
    /\ req.set.addrs # {}
    /\ matcher.count # upd.count

\* C8: a failed updateNow leaves the matcher's set and count, lastUpdate and updateCount
\* as they were and sets lastError to the fetch error, and so it stays until the next update
C8_FailedUpdateKeepsState ==
    [][upd'.fetchErr # NoError =>
           /\ matcher' = matcher
           /\ updater'.lastUpdate = updater.lastUpdate
           /\ updater'.updateCount = updater.updateCount
           /\ updater'.lastError = upd'.fetchErr]_vars

\* a periodic update failed after an earlier one had published a non-empty set
C8_Witness ==
    /\ upd.by = "loop"
    /\ upd.fetchErr # NoError
    /\ updater.lastError = upd.fetchErr
    /\ updater.updateCount >= 1
    /\ updater.lastUpdate < now
    /\ matcher.ipset.addrs # {}
    /\ matcher.count > 0

TokenNext ==
    \/ \E ans \in BootstrapAnswers : MainInitialize(ans)
    \/ MainStartRefreshLoop
    \/ \E ans \in ConfigAnswers : MainGetEDLConfig(ans)
    \/ RefreshLoopBegin
    \/ RefreshLoopFire
    \/ \E ans \in BootstrapAnswers : RefreshLoopPost(ans)
    \/ RefreshLoopStore
    \/ \E ans \in BootstrapAnswers : ForceRefreshPost(ans)
    \/ \E d \in MinValiditySet : GetTokenWithMinValidityHit(d)
    \/ \E d \in MinValiditySet, ans \in BootstrapAnswers : GetTokenWithMinValidityPost(d, ans)
    \/ CallerStore
    \/ CallerReturn
    \/ Tick

SpecToken == Init /\ [][TokenNext]_vars

(***************************************************************************)
(* Properties of the token manager, checked under SpecToken                *)
(***************************************************************************)
\* C4: a 410 answer to the startup bootstrap sets the latch, Initialize returns an error
\* IsPermanentError recognises, InitializeServices returns nil with the disabled profile
\* applied and the process keeps running
C4_StartupGoneKeepsRunning ==
    (mainPc # "InitializeServices" /\ startup.bootstrapCode = StatusGone) =>
        /\ tm.deploymentDeleted
        /\ IsPermanentError(startup.initErr)
        /\ startup.servicesErr = NoError
        /\ cfg = setDeploymentDisabled(ZeroConfig)
        /\ mainPc # "exited"

\* C6: once IsDeploymentDeleted is true it is true ever after
C6_DeletedIsLatched == [][IsDeploymentDeleted => IsDeploymentDeleted']_vars

\* with the latch set and the refresh loop gone, a ForceRefresh stored a fresh token
C6_Witness ==
    /\ IsDeploymentDeleted
    /\ refreshLoop.pc = "returned"
    /\ caller.pc = "returned"
    /\ caller.op = "ForceRefresh"
    /\ caller.err = NoError
    /\ now > 0
    /\ tm.tokenExpiry > now

\* C7: once the latch is set no further bootstrap POST is sent
C7_NoPostAfterDeleted == [][IsDeploymentDeleted => bootstrapPosts' = bootstrapPosts]_vars

(***************************************************************************)
(* The refresh loop beside a serving handler                               *)
(***************************************************************************)
\* MAX_RETRY_ATTEMPTS is positive here: the matcher of these runs always holds a set
DeletedNext ==
    \/ \E ans \in StartupAnswers : MainInitialize(ans)
    \/ MainStartRefreshLoop
    \/ \E ans \in ConfigAnswers : MainGetEDLConfig(ans)
    \/ \E n \in RetryAttemptsSet \ {0}, o \in IPHeaderOverrides : MainInitEDL(n, o)
    \/ \E os \in FetchOutcomeSeqs, c \in CancelPoints : UpdateFetch(os, c)
    \/ UpdateStoreSet
    \/ UpdateStoreCount
    \/ UpdateRecord
    \/ MainInitAuthHandler
    \/ RefreshLoopBegin
    \/ RefreshLoopFire
    \/ \E ans \in BootstrapAnswers : RefreshLoopPost(ans)
    \/ RefreshLoopStore
    \/ \E r \in Requests : ServeHTTPBegin(r)
    \/ ServeHTTPLoad
    \/ ServeHTTPFinish
    \/ ServeHTTPReturn
    \/ Tick

SpecDeleted == Init /\ [][DeletedNext]_vars

\* C5: once a refresh was answered 410 and set the latch, every request arriving with a
\* valid client IP gets 200
C5_DeletedAllowsAll ==
    (Answered /\ ValidIP /\ req.afterDeleted) => req.status = StatusOK

(***************************************************************************)
(* The log shipper beside the serving handler, through shutdown            *)
(***************************************************************************)
\* its EDL is empty, so that every request with a valid client IP is denied and logged
ShipperFetchOutcomes ==
    {os \in FetchOutcomeSeqs : \A i \in DOMAIN os : os[i].ok /\ os[i].body = <<>>}

ShipperNext ==
    \/ \E ans \in ShipperBootstrapAnswers : MainInitialize(ans)
    \/ MainStartRefreshLoop
    \/ \E ans \in ShipperConfigAnswers : MainGetEDLConfig(ans)
    \/ MainInitEDL(1, "")
    \/ \E os \in ShipperFetchOutcomes : UpdateFetch(os, 0)
    \/ UpdateStoreSet
    \/ UpdateStoreCount
    \/ UpdateRecord
    \/ MainInitAuthHandler
    \/ MainShutdownStep
    \/ \E r \in ShipperRequests : ServeHTTPBegin(r)
    \/ ServeHTTPLoad
    \/ ServeHTTPFinish
    \/ ServeHTTPSendEvent
    \/ ServeHTTPReturn
    \/ WorkerCtxDone
    \/ WorkerReceive
    \/ WorkerChanClosed
    \/ WorkerTicker
    \/ WorkerProcessBuffered
    \/ WorkerResume
    \/ ShipBatchBegin
    \/ ShipBatchWake
    \/ ShipBatchAllow
    \/ \E ok \in BOOLEAN : ShipBatchSend(ok)
    \/ ShipBatchBackoff
    \/ StopCancel
    \/ StopClose
    \/ StopDone
    \/ StopTimedOut
    \/ StopFlush
    \/ Tick

SpecShipper == Init /\ [][ShipperNext]_vars

\* how many times a sequence holds an event
RECURSIVE Occurrences(_, _)
Occurrences(events, e) ==
    IF events = <<>> THEN 0
    ELSE (IF Head(events) = e THEN 1 ELSE 0) + Occurrences(Tail(events), e)

\* the events of a batch being built or shipped, and of Stop's flush
InFlight == worker.batch \o ship.events \o stop.events

Buffered == RingEvents(buffer, buffer.head, buffer.size)

\* C9: every event handed to SendEvent is in the channel, in flight or in the buffer, or
\* was counted exactly once as shipped or dropped; the counters and the held events
\* together never exceed the SendEvent calls
C9_EventsAccounted ==
    /\ \A e \in 1..sent :
           Occurrences(shipper.eventChan \o InFlight \o Buffered, e) + tally[e] = 1
    /\ shipper.metrics.EventsShipped + shipper.metrics.EventsDropped
           + Len(InFlight) + Len(Buffered) <= sent

C11_SendEventRoutesOnce ==
    [][sent' = sent + 1 =>
         LET event == sent + 1
             dropped == shipper.metrics.EventsDropped
         IN IF Len(shipper.eventChan) < EventChanCap
            THEN /\ shipper'.eventChan = Append(shipper.eventChan, event)
                 /\ buffer' = buffer
                 /\ shipper'.metrics.EventsDropped = dropped
            ELSE IF buffer.size < buffer.capacity
            THEN /\ shipper'.eventChan = shipper.eventChan
                 /\ Buffered' = Append(Buffered, event)
                 /\ shipper'.metrics.EventsDropped = dropped
            ELSE /\ shipper'.eventChan = shipper.eventChan
                 /\ buffer' = buffer
                 /\ shipper'.metrics.EventsDropped = dropped + 1]_vars

\* a shipBatch call ends with its batch shipped, or with its batch finally failed
ShipSucceeded == shipper'.metrics.BatchesSent = shipper.metrics.BatchesSent + 1

ShipFailed == shipper'.metrics.ShippingErrors = shipper.metrics.ShippingErrors + 1

C13_OpenCircuitSkipsShipment ==
    [][(/\ ship.pc = "shipBatch"
        /\ ship' # ship
        /\ shipper.circuitOpen
        /\ now - shipper.lastFailure <= circuitBreakerTimeout) =>
         /\ bucket' = bucket
         /\ ship'.pc = "return"
         /\ shipper'.metrics.EventsShipped = shipper.metrics.EventsShipped
         /\ shipper'.metrics.BatchesSent = shipper.metrics.BatchesSent
         /\ shipper'.metrics.ShippingErrors = shipper.metrics.ShippingErrors
         /\ \A i \in DOMAIN ship.events :
                LET e == ship.events[i]
                IN \/ Occurrences(Buffered', e) = 1 /\ tally'[e] = tally[e]
                   \/ /\ Occurrences(Buffered', e) = 0
                      /\ tally'[e] = tally[e] + 1
                      /\ buffer'.size = buffer'.capacity
         /\ shipper'.metrics.EventsDropped - shipper.metrics.EventsDropped
                = Len(ship.events) - (buffer'.size - buffer.size)]_vars

\* a shipBatch call met the open circuit and returned without an attempt: one of its
\* events is back in the buffer, another was dropped
C13_Witness ==
    /\ ship.pc = "return"
    /\ ship.attempt = 0
    /\ shipper.circuitOpen
    /\ now - shipper.lastFailure <= circuitBreakerTimeout
    /\ buffer.size = buffer.capacity
    /\ shipper.metrics.ShippingErrors = circuitBreakerThreshold
    /\ shipper.metrics.EventsDropped > 0

(***************************************************************************)
(* A RingBuffer on its own (buffer.go): any sequence of Add, Get, Drain and *)
(* DrainAll calls; every method holds rb.mu from entry to return, so calls  *)
(* of concurrent goroutines take effect one after the other                 *)
(***************************************************************************)
RingInit ==
    /\ TokenInit
    /\ AccessInit
    /\ shipper = NoShipper
    /\ buffer = NewRingBuffer(RingCapacity)
    /\ bucket = NewLeakyBucket(LeakyBucketCapacity, LeakyBucketRefillRate, 0)
    /\ worker = NoWorker
    /\ ship = NoShip
    /\ stop = NoStop
    /\ sent = 0
    /\ tally = [e \in 1..MaxEvents |-> 0]
    /\ streak = 0
    /\ calls = NoCalls

RingIdleVars ==
    <<tokenVars, accessVars, shipper, bucket, worker, ship, stop, sent, tally, streak>>

\* the arguments of Drain
DrainArgs == 0..(RingCapacity + 1)

\* Add(item); the items are numbered by the call that brings them
RingCallAdd ==
    /\ calls.n < MaxCalls
    /\ LET item == calls.n + 1
           r == RingAdd(buffer, item)
       IN /\ buffer' = r[1]
          /\ calls' = [calls EXCEPT !.n = @ + 1, !.op = "Add", !.arg = item, !.ok = r[2],
                                    !.items = <<>>,
                                    !.added = IF r[2] THEN Append(@, item) ELSE @]
    /\ UNCHANGED RingIdleVars

\* Get()
RingCallGet ==
    /\ calls.n < MaxCalls
    /\ LET r == RingGet(buffer)
       IN /\ buffer' = r[1]
          /\ calls' = [calls EXCEPT !.n = @ + 1, !.op = "Get", !.arg = 0, !.ok = r[3],
                                    !.items = IF r[3] THEN <<r[2]>> ELSE <<>>,
                                    !.taken = IF r[3] THEN Append(@, r[2]) ELSE @]
    /\ UNCHANGED RingIdleVars

\* Drain(maxItems)
RingCallDrain(maxItems) ==
    /\ calls.n < MaxCalls
    /\ LET r == RingDrain(buffer, maxItems)
       IN /\ buffer' = r[1]
          /\ calls' = [calls EXCEPT !.n = @ + 1, !.op = "Drain", !.arg = maxItems,
                                    !.ok = TRUE, !.items = r[2], !.taken = @ \o r[2]]
    /\ UNCHANGED RingIdleVars

\* DrainAll()
RingCallDrainAll ==
    /\ calls.n < MaxCalls
    /\ LET r == RingDrainAll(buffer)
       IN /\ buffer' = r[1]
          /\ calls' = [calls EXCEPT !.n = @ + 1, !.op = "DrainAll", !.arg = 0,
                                    !.ok = TRUE, !.items = r[2], !.taken = @ \o r[2]]
    /\ UNCHANGED RingIdleVars

RingNext ==
    \/ RingCallAdd
    \/ RingCallGet
    \/ \E maxItems \in DrainArgs : RingCallDrain(maxItems)
    \/ RingCallDrainAll

SpecRing == RingInit /\ [][RingNext]_vars

\* C14: Size() is the number of Add calls that returned true minus the number of items
\* handed out by Get, Drain and DrainAll, and lies between 0 and the capacity; an Add on
\* a full buffer returns false and leaves the buffer as it was
C14_RingSizeAccounting ==
    /\ [](/\ RingSize(buffer) = Len(calls.added) - Len(calls.taken)
          /\ 0 <= RingSize(buffer)
          /\ RingSize(buffer) <= buffer.capacity)
    /\ [][(/\ calls'.n = calls.n + 1
           /\ calls'.op = "Add"
           /\ RingSize(buffer) = buffer.capacity) =>
            (~calls'.ok /\ buffer' = buffer)]_vars

\* an Add was refused by the full buffer after items had been added and taken out
C14_Witness ==
    /\ calls.op = "Add"
    /\ ~calls.ok
    /\ RingSize(buffer) = buffer.capacity
    /\ calls.taken # <<>>
    /\ Len(calls.added) > buffer.capacity

\* C15: the items come out in the order their Add calls went in, also after head and tail
\* have wrapped around: what was handed out so far followed by what the buffer holds is
\* the sequence of accepted items; a call hands out the oldest items, Get one, Drain(max)
\* min(max, Size()) and DrainAll all of them, and the rest stays in order
C15_RingFIFO ==
    /\ [](calls.taken \o Buffered = calls.added)
    /\ [][calls'.n = calls.n + 1 =>
            /\ calls'.op # "Add" => calls'.items \o Buffered' = Buffered
            /\ calls'.op = "Get" => Len(calls'.items) = Min(1, RingSize(buffer))
            /\ calls'.op = "Drain" => Len(calls'.items) = Min(calls'.arg, RingSize(buffer))
            /\ calls'.op = "DrainAll" => Len(calls'.items) = RingSize(buffer)]_vars

\* a Drain(2) handed out two items across the end of the array and left one behind
C15_Witness ==
    /\ calls.op = "Drain"
    /\ calls.arg = 2
    /\ Len(calls.items) = 2
    /\ buffer.head = 1
    /\ RingSize(buffer) = 1
    /\ Len(calls.taken) > 2

(***************************************************************************)
(* A LeakyBucket on its own (part_003): any sequence of Allow, AllowN,      *)
(* WaitTime and AvailableTokens calls with time passing in between; every   *)
(* method holds lb.mu from entry to return                                  *)
(***************************************************************************)
BucketInit ==
    /\ TokenInit
    /\ AccessInit
    /\ shipper = NoShipper
    /\ buffer = NewRingBuffer(LogBufferSize)
    /\ bucket = NewLeakyBucket(BucketCapacity, LeakyBucketRefillRate, 0)
    /\ worker = NoWorker
    /\ ship = NoShip
    /\ stop = NoStop
    /\ sent = 0
    /\ tally = [e \in 1..MaxEvents |-> 0]
    /\ streak = 0
    /\ calls = NoCalls

BucketIdleVars ==
    <<exitCode, mainPc, env, cfg, startup, tm, refreshLoop, caller, bootstrapPosts,
      accessVars, shipper, buffer, worker, ship, stop, sent, tally, streak>>

\* the token counts asked for: Allow takes an int64, AllowN an int, neither is validated
BucketArgs == (0 - 1)..(BucketCapacity + 1)

\* Allow(tokens); a grant is noted with its time
BucketAllow(tokens) ==
    /\ calls.n < MaxBucketCalls
    /\ LET a == Allow(bucket, tokens, now)
       IN /\ bucket' = a[1]
          /\ calls' = [calls EXCEPT !.n = @ + 1, !.op = "Allow", !.arg = tokens, !.ok = a[2],
                                    !.allowed = IF a[2] THEN Append(@, <<now, tokens>>)
                                                ELSE @]
    /\ UNCHANGED <<now, BucketIdleVars>>

\* AllowN(n)
BucketAllowN(n) ==
    /\ calls.n < MaxBucketCalls
    /\ LET a == AllowN(bucket, n, now)
       IN /\ bucket' = a[1]
          /\ calls' = [calls EXCEPT !.n = @ + 1, !.op = "AllowN", !.arg = n, !.ok = a[2],
                                    !.allowed = IF a[2] THEN Append(@, <<now, n>>) ELSE @]
    /\ UNCHANGED <<now, BucketIdleVars>>

\* WaitTime(tokens)
BucketWaitTime(tokens) ==
    /\ calls.n < MaxBucketCalls
    /\ LET w == WaitTime(bucket, tokens, now)
       IN /\ bucket' = w[1]
          /\ calls' = [calls EXCEPT !.n = @ + 1, !.op = "WaitTime", !.arg = tokens,
                                    !.ok = TRUE, !.value = w[2]]
    /\ UNCHANGED <<now, BucketIdleVars>>

\* AvailableTokens()
BucketAvailableTokens ==
    /\ calls.n < MaxBucketCalls
    /\ LET v == AvailableTokens(bucket, now)
       IN /\ bucket' = v[1]
          /\ calls' = [calls EXCEPT !.n = @ + 1, !.op = "AvailableTokens", !.arg = 0,
                                    !.ok = TRUE, !.value = v[2]]
    /\ UNCHANGED <<now, BucketIdleVars>>

\* time passes between two calls
BucketElapse(seconds) ==
    /\ now + seconds <= MaxBucketTime
    /\ now' = now + seconds
    /\ UNCHANGED <<BucketIdleVars, bucket, calls>>

BucketNext ==
    \/ \E tokens \in BucketArgs : BucketAllow(tokens)
    \/ \E n \in BucketArgs : BucketAllowN(n)
    \/ \E tokens \in BucketArgs : BucketWaitTime(tokens)
    \/ BucketAvailableTokens
    \/ \E seconds \in 1..2 : BucketElapse(seconds)

SpecBucket == BucketInit /\ [][BucketNext]_vars

\* C16: whatever calls are made with whatever arguments and pauses, the bucket holds at
\* least 0 and at most capacity tokens
C16_TokensWithinCapacity == 0 <= bucket.tokens /\ bucket.tokens <= bucket.capacity

\* the tokens granted by the calls i..j of the grants noted
RECURSIVE Granted(_, _, _)
Granted(allowed, i, j) == IF i > j THEN 0 ELSE allowed[i][2] + Granted(allowed, i + 1, j)

\* C17: the tokens granted within any interval of time are at most capacity plus what the
\* refill rate yields over the length of the interval
C17_RateBound ==
    \A i, j \in DOMAIN calls.allowed :
        i <= j => Granted(calls.allowed, i, j)
                      <= bucket.capacity
                         + bucket.refillRate * (calls.allowed[j][1] - calls.allowed[i][1])

C19_StopFlushShips ==
    (stop.pc = "returned" /\ stop.err = NoError /\ ~stop.hindered) =>
        /\ RingSize(buffer) = 0
        /\ shipper.metrics.EventsShipped = stop.shipped + Len(stop.drained)

\* C20: when Stop gives up after 10 s, the events still held in the channel, in a batch of
\* the worker and in the overflow buffer are added to events_dropped
C20_StopTimeoutCountsDropped ==
    [][(stop.pc = "wait" /\ stop'.pc = "returned" /\ stop'.err # NoError) =>
         shipper'.metrics.EventsDropped
             = shipper.metrics.EventsDropped
               + Len(shipper.eventChan) + Len(InFlight) + Len(Buffered)]_vars

\* C21: after the signal the root context is cancelled before the log shipper is stopped,
\* the log shipper's Stop has returned before the metrics collector is stopped, and that
\* before the servers are shut down
C21_ShutdownOrder ==
    /\ (stop.pc # "none" \/ mainPc \in {"metricsCollector.Stop", "server.Shutdown"})
           => rootCancelled
    /\ (shipper.started /\ mainPc \in {"metricsCollector.Stop", "server.Shutdown", "cancel",
                                        "return", "stopped"})
           => stop.pc = "returned"

\* C22: while the server listens, GET /ready answers 200 exactly when at least one update
\* has succeeded, whatever number of entries it brought, and the last successful update is
\* less than 2 hours old; otherwise it answers 503 (states in which a nil set was
\* published are left aside)
C22_ReadyIffLoadedAndFresh ==
    (ServerListening /\ ~matcher.ipset.isNil) =>
        /\ Ready(updater, matcher, now) \in {StatusOK, StatusServiceUnavailable}
        /\ Ready(updater, matcher, now) = StatusOK
               <=> (updater.updateCount >= 1 /\ now - updater.lastUpdate < ReadyMaxAge)

\* the disabled profile of a configuration
DisabledProfile(c) ==
    /\ ~c.DeploymentEnabled
    /\ c.EDLMode = "disabled"
    /\ c.UpdateFrequency = DisabledUpdateFrequency
    /\ c.EDLURL = ""

\* a config response that carries enabled=false: in its 200 body, or as one of the error
\* codes DEPLOYMENT_DISABLED / DEPLOYMENT_DELETED
CarriesDisabled(ans) ==
    \/ ans.code = StatusOK /\ ~ans.body.Enabled
    \/ /\ ans.code \in {StatusNotFound, StatusForbidden, StatusGone}
       /\ ans.errCode \in {"DEPLOYMENT_DISABLED", "DEPLOYMENT_DELETED"}

\* C23: whatever config response carrying enabled=false InitializeServices is about to
\* receive, the configuration it applies is the disabled profile; and once startup is
\* through, a configuration with DeploymentEnabled = false has exactly that profile
C23_DisabledProfile ==
    /\ mainPc = "GetEDLConfig" =>
           \A ans \in ConfigAnswers :
               (CarriesDisabled(ans) /\ GetEDLConfig(tm, ans)[2] = NoError)
                   => DisabledProfile(applyEDLConfig(cfg, GetEDLConfig(tm, ans)[1]))
    /\ (mainPc \notin {"InitializeServices", "StartRefreshLoop", "GetEDLConfig", "exited"}
        /\ ~cfg.DeploymentEnabled) => DisabledProfile(cfg)

\* a step in which refresh stores the answer of a successful bootstrap POST
RefreshSucceeds ==
    \/ /\ refreshLoop.pc = "answered"
       /\ refreshLoop'.pc = "armed"
       /\ BootstrapErr(env.ELLIO_BOOTSTRAP, refreshLoop.ans) = NoError
    \/ /\ caller.pc = "answered"
       /\ caller'.pc = "returned"
       /\ BootstrapErr(env.ELLIO_BOOTSTRAP, caller.ans) = NoError

\* C24: every successful refresh, by the loop, GetTokenWithMinValidity or ForceRefresh,
\* stores an expiry that is not earlier than the one it replaces (later, up to the whole
\* seconds of the model's clock)
C24_ExpiryMonotonic ==
    [][RefreshSucceeds => tm'.tokenExpiry >= tm.tokenExpiry]_vars


\* C25: GetStatus returns a consistent snapshot while updateNow runs: the tuple it
\* gives while the server answers is the updater's state after a whole number of
\* completed updateNow calls, so the entry count it returns changes only in the
\* step that completes an update, together with the update count it returns (never
\* the entry count of a newer update beside the updateCount of an older one)
C25_StatusSnapshot ==
    [][(ServerListening /\ GetStatus(updater', matcher')[4] # GetStatus(updater, matcher)[4])
           => GetStatus(updater', matcher')[3] = GetStatus(updater, matcher)[3] + 1]_vars


(***************************************************************************)
(* The running log shipper with a logs endpoint that accepts every POST    *)
(***************************************************************************)
\* time.Sleep(waitTime) in shipBatch (part_002:206-208): the clock moves on while the
\* worker sleeps; every step refills the bucket to its capacity
SleepElapses ==
    /\ ship.pc = "Sleep"
    /\ now < ship.wake
    /\ Tick

\* deployments that ship logs, as allowlist and as blocklist
RunningConfigAnswers ==
    {a \in ConfigAnswers : /\ a.code = StatusOK
                           /\ a.body.Enabled
                           /\ a.body.UpdateFrequencySeconds = 0
                           /\ a.body.Combined # <<>>}

\* their EDL is empty or covers 10.0.0.1
RunningFetchOutcomes ==
    {os \in FetchOutcomeSeqs :
        \A i \in DOMAIN os : os[i].ok /\ os[i].body \in {<<>>, << <<"10.0.0.0/8">> >>}}

\* requests from a listed address, from another address and without an address
RunningRequests ==
    {r \in Requests : /\ r.override = <<>> /\ r.xri = <<>> /\ r.remote # <<>>
                      /\ r.xff \in {<<"10.0.0.1">>, <<" ", "192.168.1.1", ",", "10.0.0.1">>,
                                    <<"text">>}}

\* no signal arrives and every POST of a batch is answered 2xx
RunningNext ==
    \/ \E ans \in ShipperBootstrapAnswers : MainInitialize(ans)
    \/ MainStartRefreshLoop
    \/ \E ans \in RunningConfigAnswers : MainGetEDLConfig(ans)
    \/ MainInitEDL(1, "")
    \/ \E os \in RunningFetchOutcomes : UpdateFetch(os, 0)
    \/ UpdateStoreSet
    \/ UpdateStoreCount
    \/ UpdateRecord
    \/ MainInitAuthHandler
    \/ \E r \in RunningRequests : ServeHTTPBegin(r)
    \/ ServeHTTPLoad
    \/ ServeHTTPFinish
    \/ ServeHTTPSendEvent
    \/ ServeHTTPReturn
    \/ WorkerReceive
    \/ WorkerTicker
    \/ WorkerProcessBuffered
    \/ WorkerResume
    \/ ShipBatchBegin
    \/ ShipBatchAllow
    \/ ShipBatchWake
    \/ ShipBatchSend(TRUE)
    \/ SleepElapses

\* the worker goroutine is scheduled; its select (part_002:157-187) picks at random
\* among the ready cases, so a case that is ready again and again is taken
RunningFairness ==
    /\ SF_vars(WorkerReceive)
    /\ SF_vars(WorkerTicker)
    /\ WF_vars(WorkerProcessBuffered)
    /\ WF_vars(WorkerResume)
    /\ WF_vars(ShipBatchBegin)
    /\ WF_vars(ShipBatchAllow)
    /\ WF_vars(ShipBatchWake)
    /\ WF_vars(ShipBatchSend(TRUE))
    /\ WF_vars(SleepElapses)

SpecRunning == Init /\ [][RunningNext]_vars /\ RunningFairness

\* C26: with a logs endpoint that accepts every POST and a running shipper, every event
\* passed to SendEvent is eventually counted as shipped or dropped, and after the
\* burst events_shipped + events_dropped equals the number of SendEvent calls for good
C26_EventuallyCounted ==
    /\ \A e \in 1..MaxEvents : (sent >= e) ~> (tally[e] = 1)
    /\ <>[](shipper.metrics.EventsShipped + shipper.metrics.EventsDropped = sent)

\* a burst that overflowed the channel and the buffer is wholly counted, part of it
\* shipped after a wait for the bucket and part of it dropped
C26_Witness ==
    /\ sent = MaxEvents
    /\ shipper.metrics.EventsShipped + shipper.metrics.EventsDropped = sent
    /\ shipper.metrics.EventsDropped > 0
    /\ shipper.metrics.BatchesSent >= 2
    /\ now > 0


(***************************************************************************)
(* Handler.extractClientIP alone                                           *)
(***************************************************************************)
\* requests as in Requests, with more values of the override header and a remote
\* address without a port
ExtractRequests ==
    [override : {<<>>, <<"192.168.1.1">>, <<" ", "10.0.0.1", " ", ",", "192.168.1.1">>},
     xff : {<<>>, <<"10.0.0.1">>, <<" ", "192.168.1.1", ",", "10.0.0.1">>, <<"text">>,
            <<",", "10.0.0.1">>},
     xri : {<<>>, <<"192.168.1.1", " ">>},
     remote : {<<"10.0.0.1", ":", "port">>, <<"192.168.1.1">>}]

\* a handler built by initAuthHandler, with or without IP_HEADER_OVERRIDE
ExtractInit ==
    /\ TokenInit
    /\ ShipperInit
    /\ fetcherCfg \in [MaxRetryAttempts : {0}, IPHeaderOverride : IPHeaderOverrides]
    /\ handler = NewHandler("blocklist", TRUE, fetcherCfg.IPHeaderOverride, "")
    /\ rootCancelled = FALSE
    /\ matcher = NewMatcher
    /\ updater = NewUpdater
    /\ upd = NoUpdate
    /\ ticker = 0
    /\ req = IdleRequest
    /\ updateArgs = {}
    /\ everStored = FALSE

\* extractClientIP(r); the call and its result are kept in calls
ExtractCall(r) ==
    /\ calls' = [NoCalls EXCEPT !.n = 1, !.op = "extractClientIP", !.arg = r,
                                !.value = extractClientIP(handler, r)]
    /\ UNCHANGED <<tokenVars, accessVars>>
    /\ UNCHANGED <<shipper, buffer, bucket, worker, ship, stop, sent, tally, streak>>

ExtractNext == \E r \in ExtractRequests : ExtractCall(r)

SpecExtract == ExtractInit /\ [][ExtractNext]_vars

\* the first comma-separated value of a header, trimmed
FirstValue(s) == TrimSpace(SplitFirst(s))

\* the override header is configured and the request carries it
OverrideApplies(h, r) == h.ipHeaderOverride # "" /\ r.override # <<>>

\* C27: the client IP is the first value of the configured override header when the
\* request has it; otherwise the first X-Forwarded-For value; otherwise X-Real-IP;
\* otherwise the remote address (its host part); a configured but absent override
\* header falls through to these
C27_ClientIPSource ==
    calls.op = "extractClientIP" =>
        LET r == calls.arg
            ip == calls.value
        IN /\ OverrideApplies(handler, r) => ip = FirstValue(r.override)
           /\ (~OverrideApplies(handler, r) /\ r.xff # <<>>) => ip = FirstValue(r.xff)
           /\ (~OverrideApplies(handler, r) /\ r.xff = <<>> /\ r.xri # <<>>)
                  => ip = TrimSpace(r.xri)
           /\ (~OverrideApplies(handler, r) /\ r.xff = <<>> /\ r.xri = <<>>)
                  => ip = IF SplitHostPort(r.remote)[1] THEN SplitHostPort(r.remote)[2]
                          ELSE r.remote

\* the configured header is absent from a request that has X-Forwarded-For and
\* X-Real-IP: the first X-Forwarded-For value is taken
C27_Witness ==
    /\ calls.op = "extractClientIP"
    /\ handler.ipHeaderOverride # ""
    /\ calls.arg.override = <<>>
    /\ calls.arg.xff = <<" ", "192.168.1.1", ",", "10.0.0.1">>
    /\ calls.arg.xri # <<>>
    /\ calls.value = <<"192.168.1.1">>


\* the result label that goes with an answer
LabelOf(status) ==
    CASE status = StatusBadRequest -> "invalid"
      [] status = StatusOK -> "allowed"
      [] status = StatusForbidden -> "denied"
      [] OTHER -> ""

\* C28: ServeHTTP checks in this order: an empty client IP gives 400 even when the
\* deployment is disabled; a disabled deployment gives 200 before the IP is parsed; an
\* unparsable IP gives 400; only then the matcher is asked.  Each request handled
\* increments exactly one result label, the one that goes with its 400, 200 or 403
C28_CheckOrderAndLabels ==
    /\ req.pc = "done" =>
          /\ req.clientIP = <<>> => req.status = StatusBadRequest
          /\ (req.clientIP # <<>> /\ ~handler.deploymentEnabled) => req.status = StatusOK
          /\ (req.clientIP # <<>> /\ handler.deploymentEnabled /\ ~ValidIP)
                 => req.status = StatusBadRequest
          /\ req.status \in {StatusBadRequest, StatusOK, StatusForbidden}
          /\ req.labels = <<LabelOf(req.status)>>
    /\ req.pc \in {"Contains", "loaded", "SendEvent"} =>
          (req.clientIP # <<>> /\ handler.deploymentEnabled /\ ValidIP)


\* the event is the one of a denied request in the handler's mode
BlockedEvent(e) ==
    /\ e.outcome = "blocked"
    /\ e.status_code = StatusForbidden
    /\ e.reason = IF handler.isBlocklist THEN "in_blocklist" ELSE "not_in_allowlist"

\* C29: with a log shipper attached, a request answered 403 has made exactly one
\* SendEvent call, with an event of outcome blocked, status code 403 and the reason of
\* the mode (in_blocklist or not_in_allowlist); a request answered 200 or 400 has made none
C29_DeniedEmitsOneEvent ==
    /\ [](req.pc = "done" =>
            /\ (req.status = StatusForbidden /\ handler.logShipper)
                   => (Len(req.events) = 1 /\ BlockedEvent(req.events[1]))
            /\ req.status \in {StatusOK, StatusBadRequest} => req.events = <<>>)
    /\ [][(req.pc # "done" /\ req'.pc = "done") =>
              /\ (req'.status = StatusForbidden /\ handler.logShipper) => sent' = sent + 1
              /\ req'.status \in {StatusOK, StatusBadRequest} => sent' = sent]_vars
    /\ [][sent' # sent => (req.pc = "SendEvent" /\ req'.pc = "done")]_vars

\* a blocklist deployment has denied a listed address and handed the event over
C29_Witness ==
    /\ req.pc = "done"
    /\ req.status = StatusForbidden
    /\ handler.logShipper
    /\ handler.isBlocklist
    /\ req.events = <<NewAccessEvent(handler, <<"10.0.0.1">>)>>
    /\ req.events[1].reason = "in_blocklist"
    /\ sent >= 1


\* an updateNow by the given caller gets its fetch result in this step, and it is an error
UpdateFails(by) ==
    /\ upd.pc = "FetchWithRetry"
    /\ upd.by = by
    /\ upd'.pc # "FetchWithRetry"
    /\ upd'.fetchErr # NoError

\* C30: Updater.Start of a disabled deployment fetches nothing and starts no loop, and
\* main goes on; of an enabled one it runs one updateNow while main waits; when that
\* fails the error is returned (main exits) and no loop is started; when it succeeds one
\* loop is started, in which a failing updateNow changes nothing for main and leaves the
\* loop waiting for its next tick
C30_StartAndLoop ==
    /\ []((mainPc \in {"initAuthHandler", "serving"} /\ ~cfg.DeploymentEnabled)
              => (upd = NoUpdate /\ updater = NewUpdater /\ updateArgs = {}))
    /\ [](mainPc = "Updater.Start"
              => (upd.by = "Start"
                  /\ upd.pc \in {"FetchWithRetry", "Update", "count.Store", "record"}
                  /\ updater.updateCount = 0))
    /\ [][UpdateFails("Start")
              => (upd'.pc = "none" /\ mainPc' = "exited" /\ exitCode' = 1
                  /\ matcher' = matcher)]_vars
    /\ [](mainPc = "exited" => upd.pc = "none")
    /\ [][(mainPc = "Updater.Start" /\ mainPc' # "Updater.Start" /\ mainPc' # "exited")
              => (upd'.pc = "idle" /\ updater'.updateCount = 1 /\ mainPc' = "initAuthHandler")]_vars
    /\ [][UpdateFails("loop")
              => (upd'.pc = "idle" /\ mainPc' = mainPc /\ exitCode' = exitCode
                  /\ ticker' = ticker)]_vars
    /\ []((upd.pc = "idle" /\ Alive /\ now >= ticker /\ updater.updateCount < MaxUpdates)
              => ENABLED UpdateTick)

\* the loop has met a failing updateNow and a later tick runs updateNow again
C30_Witness ==
    /\ upd.by = "loop"
    /\ upd.pc = "FetchWithRetry"
    /\ updater.lastError # NoError
    /\ updater.updateCount = 1
    /\ mainPc = "serving"


(***************************************************************************)
(* Fetcher.FetchWithRetry alone                                            *)
(***************************************************************************)
\* MAX_RETRY_ATTEMPTS as LoadFromEnv takes it: any integer, the default being 3
FetchAttemptsSet == {0 - 1, 0, 1, 2, 3}

\* a fetcher built with MAX_RETRY_ATTEMPTS, and a context cancelled or not
FetchInit ==
    /\ TokenInit
    /\ ShipperInit
    /\ fetcherCfg \in [MaxRetryAttempts : FetchAttemptsSet, IPHeaderOverride : {""}]
    /\ rootCancelled \in BOOLEAN
    /\ matcher = NewMatcher
    /\ updater = NewUpdater
    /\ upd = NoUpdate
    /\ ticker = 0
    /\ handler = NoHandler
    /\ req = IdleRequest
    /\ updateArgs = {}
    /\ everStored = FALSE

\* FetchWithRetry(ctx); the call and its result are kept in calls
FetchCall(outcomes, cancelAt) ==
    /\ calls' = [NoCalls EXCEPT !.n = 1, !.op = "FetchWithRetry",
                                !.arg = [outcomes |-> outcomes, cancelAt |-> cancelAt],
                                !.value = FetchWithRetry("edl", fetcherCfg.MaxRetryAttempts,
                                                         outcomes, cancelAt)]
    /\ UNCHANGED <<tokenVars, accessVars>>
    /\ UNCHANGED <<shipper, buffer, bucket, worker, ship, stop, sent, tally, streak>>

FetchNext == \E os \in FetchOutcomeSeqs : \E cancelAt \in CancelPoints : FetchCall(os, cancelAt)

SpecFetch == FetchInit /\ [][FetchNext]_vars

\* the attempts (1..n) that would meet a 200 answer
Successes(os) == {i \in DOMAIN os : os[i].ok}

\* the attempt before whose wait the context is seen cancelled, when the calls before
\* it all fail; 0 when there is none
CancelledBefore(os, cancelAt) ==
    IF cancelAt >= 1 /\ \A i \in 1..cancelAt : ~os[i].ok THEN cancelAt ELSE 0

\* C31: FetchWithRetry makes at most MaxRetryAttempts fetch attempts; it returns the first
\* successful result without a further attempt; before each attempt with index i >= 1 it
\* waits RetryDelay * i; when the context is cancelled during a wait it returns the
\* context's error without a further attempt; after the last failed attempt it returns
\* that attempt's error
C31_FetchWithRetry ==
    calls.op = "FetchWithRetry" =>
        LET n == fetcherCfg.MaxRetryAttempts
            os == calls.arg.outcomes
            c == CancelledBefore(os, calls.arg.cancelAt)
            r == calls.value
        IN /\ r.attempts <= (IF n > 0 THEN n ELSE 0)
           /\ r.waits = [i \in 1..(IF c > 0 THEN c - 1 ELSE r.attempts - 1) |-> RetryDelay * i]
           /\ (c = 0 /\ Successes(os) # {}) =>
                  /\ r.attempts \in Successes(os)
                  /\ \A i \in Successes(os) : r.attempts <= i
                  /\ r.err = NoError
                  /\ <<r.ipset, r.count>> = parseEDL(os[r.attempts].body)
           /\ c > 0 =>
                  /\ r.attempts = c
                  /\ r.err = errorsNew("context canceled")
           /\ (c = 0 /\ Successes(os) = {} /\ n >= 1) =>
                  /\ r.attempts = n
                  /\ r.err = fetch("edl", os[n]).err
                  /\ r.err # NoError

\* two failed attempts and the waits of 30 s and 60 s, then the third attempt succeeds
C31_Witness ==
    /\ calls.op = "FetchWithRetry"
    /\ fetcherCfg.MaxRetryAttempts = 3
    /\ calls.value.attempts = 3
    /\ calls.value.waits = <<RetryDelay, 2 * RetryDelay>>
    /\ calls.value.err = NoError
    /\ calls.value.count = 1


\* C32: once the shipper's context is cancelled (Stop), sendWithRetry begins no further
\* backoff sleep, so that the worker ends its shipBatch without the rest of the schedule
C32_BackoffHonorsCancel ==
    [][(shipper.cancelled /\ ship.pc # "backoff") => ship'.pc # "backoff"]_vars


\* the loop's refresh returns in this step, with this result of Bootstrap
LoopRefreshReturns == refreshLoop.pc = "answered" /\ refreshLoop'.pc # "answered"

LoopRefreshErr == BootstrapErr(env.ELLIO_BOOTSTRAP, refreshLoop.ans)

\* 80% of the time until the expiry, not below 30 seconds
EightyPercent(expiry, at) ==
    IF ((expiry - at) * 8) \div 10 < 30 THEN 30 ELSE ((expiry - at) * 8) \div 10

\* C33: the refresh loop does nothing when the Deleted latch is set as it starts; at a
\* timer fire it makes one refresh; after a success it re-arms at 80% of the time until
\* the new expiry, at least 30 s; after a transient failure it re-arms at 30 s; a
\* permanent (410) failure sets the latch, and the loop then ends at its next fire
\* without another refresh
C33_RefreshLoop ==
    /\ [][(refreshLoop.pc = "spawned" /\ refreshLoop'.pc # "spawned")
              => refreshLoop'.pc = (IF tm.deploymentDeleted THEN "returned" ELSE "armed")]_vars
    /\ [][(refreshLoop.pc = "armed" /\ refreshLoop'.pc # "armed")
              => (now >= refreshLoop.timer
                  /\ refreshLoop'.pc = (IF tm.deploymentDeleted THEN "returned" ELSE "refresh")
                  /\ bootstrapPosts' = bootstrapPosts)]_vars
    /\ [][(refreshLoop.pc = "refresh" /\ refreshLoop'.pc # "refresh")
              => (refreshLoop'.pc = "answered" /\ bootstrapPosts' = bootstrapPosts + 1)]_vars
    /\ [][LoopRefreshReturns =>
              /\ refreshLoop'.pc = "armed"
              /\ LoopRefreshErr = NoError =>
                     /\ tm'.tokenExpiry = now + refreshLoop.ans.expires_in
                     /\ refreshLoop'.timer = now + EightyPercent(tm'.tokenExpiry, now)
              /\ (LoopRefreshErr # NoError /\ ~IsPermanentError(LoopRefreshErr)) =>
                     /\ refreshLoop'.timer = now + 30
                     /\ tm' = tm
              /\ IsPermanentError(LoopRefreshErr) => tm'.deploymentDeleted]_vars
    /\ [](IsPermanentError(refreshLoop.last) =>
              (tm.deploymentDeleted /\ refreshLoop.pc \in {"armed", "returned"}))
    /\ [][refreshLoop.pc = "returned" => refreshLoop'.pc = "returned"]_vars

\* the loop's refresh was answered 410 and the loop has ended at its next fire, the
\* start-up bootstrap having been its only other POST
C33_Witness ==
    /\ IsPermanentError(refreshLoop.last)
    /\ refreshLoop.pc = "returned"
    /\ tm.deploymentDeleted
    /\ bootstrapPosts = 2


(***************************************************************************)
(* LogShipper.sendWithRetry alone                                          *)
(***************************************************************************)
\* a started shipper, its context cancelled or not, and a token manager that holds a
\* token and a logs URL or lacks one of them
SendInit ==
    /\ now = 0
    /\ mainPc = "serving"
    /\ exitCode = -1
    /\ env \in [ELLIO_BOOTSTRAP : BootstrapTokens]
    /\ cfg = ZeroConfig
    /\ startup = [bootstrapCode |-> 0, initErr |-> NoError, servicesErr |-> NoError]
    /\ \E token \in {"", "tok"}, url \in {"", "logs"} :
           tm = [NewTokenManager EXCEPT !.currentToken = token, !.logsURL = url]
    /\ refreshLoop = [pc |-> "none", timer |-> 0, ans |-> NoAnswer, last |-> NoError]
    /\ caller = IdleCaller
    /\ bootstrapPosts = 0
    /\ AccessInit
    /\ \E cancelled \in BOOLEAN : shipper = [NewLogShipper EXCEPT !.cancelled = cancelled]
    /\ buffer = NewRingBuffer(LogBufferSize)
    /\ bucket = NewLeakyBucket(LeakyBucketCapacity, LeakyBucketRefillRate, 0)
    /\ worker = NoWorker
    /\ ship = NoShip
    /\ stop = NoStop
    /\ sent = 0
    /\ tally = [e \in 1..MaxEvents |-> 0]
    /\ streak = 0
    /\ calls = NoCalls

\* what the logs endpoint answers to each of the POSTs of one call
SendAnswers == [1..sendMaxRetries -> BOOLEAN]

\* sendWithRetry(payload); the call and its result are kept in calls
SendCall(answers) ==
    /\ calls' = [NoCalls EXCEPT !.n = 1, !.op = "sendWithRetry", !.arg = answers,
                                !.value = sendWithRetry(shipper, tm, answers)]
    /\ UNCHANGED <<tokenVars, accessVars>>
    /\ UNCHANGED <<shipper, buffer, bucket, worker, ship, stop, sent, tally, streak>>

SendNext == \E answers \in SendAnswers : SendCall(answers)

SpecSend == SendInit /\ [][SendNext]_vars

\* the POSTs (1..5) that would succeed: the shipper can send and the endpoint accepts
Accepted(answers) ==
    {i \in DOMAIN answers : send(shipper, tm, answers[i]) = NoError}

\* 2^k
RECURSIVE Pow2(_)
Pow2(k) == IF k = 0 THEN 1 ELSE 2 * Pow2(k - 1)

\* C34: sendWithRetry makes at most 5 send attempts and stops at the first that
\* succeeds; between consecutive attempts it waits 1 s, 2 s, 4 s, 8 s, ... (doubling,
\* capped at 30 s); every error is retried, so a batch that keeps failing uses all 5
\* attempts before the error is returned
C34_SendWithRetry ==
    calls.op = "sendWithRetry" =>
        LET r == calls.value
            ok == Accepted(calls.arg)
        IN /\ r.attempts <= 5
           /\ r.attempts >= 1
           /\ r.sleeps = [i \in 1..(r.attempts - 1) |->
                              IF Pow2(i - 1) < 30 THEN Pow2(i - 1) ELSE 30]
           /\ ok # {} => (r.err = NoError /\ r.attempts \in ok
                          /\ \A i \in ok : r.attempts <= i)
           /\ ok = {} => (r.err # NoError /\ r.attempts = 5
                          /\ r.err = send(shipper, tm, calls.arg[5]))

\* four failures with the waits 1 s, 2 s, 4 s and 8 s, then the fifth POST is accepted
C34_Witness ==
    /\ calls.op = "sendWithRetry"
    /\ calls.arg = [i \in 1..5 |-> i = 5]
    /\ calls.value = [err |-> NoError, attempts |-> 5, sleeps |-> <<1, 2, 4, 8>>]

(***************************************************************************)
(* The circuit breaker alone: isCircuitOpen, recordFailure and             *)
(* recordSuccess on one shipper, over a clock that passes the timeout.     *)
(***************************************************************************)

CircuitInit ==
    /\ TokenInit
    /\ AccessInit
    /\ shipper = NewLogShipper
    /\ buffer = NewRingBuffer(LogBufferSize)
    /\ bucket = NewLeakyBucket(LeakyBucketCapacity, LeakyBucketRefillRate, 0)
    /\ worker = NoWorker
    /\ ship = NoShip
    /\ stop = NoStop
    /\ sent = 0
    /\ tally = [e \in 1..MaxEvents |-> 0]
    /\ streak = 0
    /\ calls = NoCalls

CircuitIdleVars ==
    <<exitCode, mainPc, env, cfg, startup, tm, refreshLoop, caller, bootstrapPosts,
      accessVars, buffer, bucket, worker, ship, stop, sent, tally>>

\* shipBatch line 197: isCircuitOpen(); the answer is kept in calls
CircuitCheck ==
    /\ calls.n < MaxCircuitCalls
    /\ LET c == isCircuitOpen(shipper, now)
       IN /\ shipper' = c[1]
          /\ calls' = [calls EXCEPT !.n = @ + 1, !.op = "isCircuitOpen", !.ok = c[2]]
    /\ UNCHANGED <<now, CircuitIdleVars, streak>>

\* shipBatch lines 227-245 after a check that let the shipment through: it failed for
\* good (recordFailure) or was accepted (recordSuccess)
CircuitShipment(ok) ==
    /\ calls.n < MaxCircuitCalls
    /\ calls.op = "isCircuitOpen"
    /\ ~calls.ok
    /\ shipper' = IF ok THEN recordSuccess(shipper) ELSE recordFailure(shipper, now)
    /\ streak' = IF ok THEN 0 ELSE streak + 1
    /\ calls' = [calls EXCEPT !.n = @ + 1, !.op = "shipment", !.ok = ok]
    /\ UNCHANGED <<now, CircuitIdleVars>>

\* time passes between two calls
CircuitElapse ==
    /\ now + TickStep <= MaxCircuitTime
    /\ now' = now + TickStep
    /\ UNCHANGED <<CircuitIdleVars, shipper, streak, calls>>

CircuitNext ==
    \/ CircuitCheck
    \/ \E ok \in BOOLEAN : CircuitShipment(ok)
    \/ CircuitElapse

SpecCircuit == CircuitInit /\ [][CircuitNext]_vars

\* the open circuit's timeout has passed
TimedOut(s, at) == s.circuitOpen /\ at - s.lastFailure > circuitBreakerTimeout

\* C35: a check of the open circuit more than circuitBreakerTimeout after the last
\* failure lets the shipment through and leaves the circuit half open: the circuit is
\* marked closed, and the failure counter goes back to 0, in no step but an accepted
\* shipment
C35_HalfOpenUntilSuccess ==
    [][/\ (TimedOut(shipper, now) /\ calls'.n # calls.n /\ calls'.op = "isCircuitOpen")
             => ~calls'.ok
       /\ ((shipper.circuitOpen /\ ~shipper'.circuitOpen)
             \/ (shipper.failureCount > 0 /\ shipper'.failureCount = 0))
             => (calls'.n # calls.n /\ calls'.op = "shipment" /\ calls'.ok)]_vars

\* the check found the circuit timed out and has itself closed it and reset the counter
C35_ClosedByCheck ==
    /\ calls.op = "isCircuitOpen"
    /\ ~calls.ok
    /\ streak >= circuitBreakerThreshold
    /\ ~shipper.circuitOpen
    /\ shipper.failureCount = 0
    /\ now - shipper.lastFailure > circuitBreakerTimeout

(***************************************************************************)
(* The worker alone: SendEvent, processEvents and shipBatch of a started   *)
(* shipper whose channel and buffer hold more than one event.              *)
(***************************************************************************)

OrderInit ==
    /\ now = 0
    /\ mainPc = "serving"
    /\ exitCode = -1
    /\ env \in [ELLIO_BOOTSTRAP : BootstrapTokens]
    /\ cfg = ZeroConfig
    /\ startup = [bootstrapCode |-> 0, initErr |-> NoError, servicesErr |-> NoError]
    /\ tm = [NewTokenManager EXCEPT !.currentToken = "tok", !.logsURL = "logs"]
    /\ refreshLoop = [pc |-> "none", timer |-> 0, ans |-> NoAnswer, last |-> NoError]
    /\ caller = IdleCaller
    /\ bootstrapPosts = 0
    /\ AccessInit
    /\ shipper = [NewLogShipper EXCEPT !.chanCap = OrderChanCap]
    /\ buffer = NewRingBuffer(OrderBufferSize)
    /\ bucket = NewLeakyBucket(LeakyBucketCapacity, LeakyBucketRefillRate, 0)
    /\ worker = [NoWorker EXCEPT !.pc = "select"]
    /\ ship = NoShip
    /\ stop = NoStop
    /\ sent = 0
    /\ tally = [e \in 1..OrderEvents |-> 0]
    /\ streak = 0
    /\ calls = NoCalls

\* SendEvent(event), called by a handler; the events are numbered as they are sent
OrderSendEvent ==
    /\ sent < OrderEvents
    /\ LET r == SendEvent(shipper, buffer, sent + 1)
       IN /\ shipper' = r.shipper
          /\ buffer' = r.buffer
          /\ tally' = IF r.dropped THEN counted(tally, <<sent + 1>>) ELSE tally
    /\ sent' = sent + 1
    /\ UNCHANGED <<tokenVars, accessVars>>
    /\ UNCHANGED <<bucket, worker, ship, stop, streak, calls>>

OrderNext ==
    \/ OrderSendEvent
    \/ WorkerReceive
    \/ WorkerTicker
    \/ WorkerProcessBuffered
    \/ WorkerResume
    \/ ShipBatchBegin
    \/ ShipBatchWake
    \/ ShipBatchAllow
    \/ \E ok \in BOOLEAN : ShipBatchSend(ok)
    \/ ShipBatchBackoff
    \/ Tick

SpecOrder == OrderInit /\ [][OrderNext]_vars

\* the events of a sequence are in the order in which SendEvent put them on the channel
Ascending(events) ==
    \A i, j \in DOMAIN events : i < j => events[i] < events[j]

HasTokenManager == mainPc # "InitializeServices" /\ env.ELLIO_BOOTSTRAP # ""

\* cfg.GetDeploymentState(); the value returned is kept in calls.  InitializeServices runs
\* on the only goroutine that holds cfg, so no call falls between its statements
GetDeploymentStateCall ==
    /\ Alive
    /\ mainPc \notin {"StartRefreshLoop", "GetEDLConfig"}
    /\ calls' = [NoCalls EXCEPT !.n = 1, !.op = "GetDeploymentState",
                                !.value = GetDeploymentState(cfg, HasTokenManager,
                                                             IsDeploymentDeleted)]
    /\ UNCHANGED <<tokenVars, accessVars>>
    /\ UNCHANGED <<shipper, buffer, bucket, worker, ship, stop, sent, tally, streak>>

StateNext ==
    \/ \E ans \in BootstrapAnswers : MainInitialize(ans)
    \/ MainStartRefreshLoop
    \/ \E ans \in ConfigAnswers : MainGetEDLConfig(ans)
    \/ RefreshLoopBegin
    \/ RefreshLoopFire
    \/ \E ans \in BootstrapAnswers : RefreshLoopPost(ans)
    \/ RefreshLoopStore
    \/ GetDeploymentStateCall
    \/ Tick

SpecState == Init /\ [][StateNext]_vars

\* C37: a call of GetDeploymentState returns Active exactly when DeploymentEnabled is
\* true, Deleted exactly when it is false and the token manager's latch is set, Disabled
\* in the remaining case; AllowsAllTraffic is true of the value exactly when it is not
\* Active; and a call that follows one which returned Deleted returns Deleted
C37_DeploymentState ==
    [][calls' # calls =>
         LET state == calls'.value
         IN /\ calls'.op = "GetDeploymentState"
            /\ state \in {DeploymentActive, DeploymentDisabled, DeploymentDeleted}
            /\ state = DeploymentActive <=> cfg.DeploymentEnabled
            /\ state = DeploymentDeleted <=> (~cfg.DeploymentEnabled /\ IsDeploymentDeleted)
            /\ state = DeploymentDisabled <=> (~cfg.DeploymentEnabled /\ ~IsDeploymentDeleted)
            /\ AllowsAllTraffic(state) <=> state \in {DeploymentDisabled, DeploymentDeleted}
            /\ ~(calls.op = "GetDeploymentState" /\ calls.value = DeploymentDeleted)]_vars

\* the control plane disabled the deployment at startup, a later refresh met 410, and
\* GetDeploymentState has returned Deleted
C37_Witness ==
    /\ calls.op = "GetDeploymentState"
    /\ calls.value = DeploymentDeleted
    /\ startup.initErr = NoError
    /\ refreshLoop.last # NoError
    /\ mainPc = "initEDL"

(***************************************************************************)
(* SendEvent and the channel Stop has closed, checked under SpecShipper    *)
(***************************************************************************)
\* C38: no SendEvent call executes once Stop has closed the intake channel, so no handler
\* still being served sends on the closed channel and panics
C38_NoSendEventAfterClose ==
    /\ [][sent' = sent + 1 => ~shipper.closed]_vars
    /\ [](shipper.closed => ~req.panicked)

(***************************************************************************)
(* The set the Matcher holds, checked under Spec                           *)
(***************************************************************************)
\* C39: whatever MaxRetryAttempts is, a FetchWithRetry that returns no error returns a
\* set; so updateNow hands no nil set to Matcher.Update, the Matcher's current set is
\* never nil and Contains never works on a nil set
C39_SetNeverNil ==
    /\ upd.pc = "Update" => (upd.fetchErr = NoError /\ ~upd.ipset.isNil)
    /\ \A ipset \in updateArgs : ~ipset.isNil
    /\ ~matcher.ipset.isNil
    /\ req.pc = "loaded" => ~req.set.isNil

(***************************************************************************)
(* The refresh loop and the token's expiry, checked under SpecToken        *)
(***************************************************************************)
\* C40: as long as no refresh fails, the timer the loop arms with
\* calculateRefreshInterval fires no later than tokenExpiry, whatever expires_in the
\* server issued, and up to that moment GetToken returns a token that has not expired
C40_RefreshedBeforeExpiry ==
    /\ [][(/\ refreshLoop' # refreshLoop
           /\ refreshLoop'.pc = "armed"
           /\ refreshLoop'.last = NoError) => refreshLoop'.timer <= tm'.tokenExpiry]_vars
    /\ []((/\ refreshLoop.pc = "armed"
           /\ refreshLoop.last = NoError
           /\ now <= refreshLoop.timer
           /\ GetToken # "") => now <= tm.tokenExpiry)

=============================================================================
